---- MODULE Spec2Model ----
(***************************************************************************)
(* Progression tracking, prerequisite resolution and next-content          *)
(* suggestion of the learning application (programme_learning_v2.py,       *)
(* database_schema.py, migration_script.py, app.py).  The SQLite tables    *)
(* are sets of rows, the DAO and service methods are operators and actions *)
(* over them.                                                              *)
(***************************************************************************)
EXTENDS Integers, Sequences, FiniteSets, TLC

VARIABLES
    programmes,   \* table programmes
    semaines,     \* table semaines
    jours,        \* table jours
    contenus,     \* table contenus
    prerequis,    \* table prerequis
    progression,  \* table progression
    clock,        \* the system clock read by datetime.now()
    last,         \* the last call: its arguments and what it returned
    pc,           \* position of the suggest-then-validate loop
    prochain,     \* the suggestion the loop is working on
    visites,      \* the suggestions the loop has received, in order
    avant,        \* the store as it was when the last import began
    session       \* the process or session that holds the connections

vars == <<programmes, semaines, jours, contenus, prerequis, progression,
          clock, last, pc, prochain, visites, avant, session>>

tables == <<programmes, semaines, jours, contenus, prerequis>>

boucle == <<pc, prochain, visites>>

hors_operation == <<pc, prochain, visites, avant, session>>

----------------------------------------------------------------------------
(* Bounds *)

\* the clock value after which the free-running specification stops
MaxClock == 3

(* Program constants *)

\* LIMIT 10 of the candidate query
LIMIT == 10

\* value=contenu['temps_estime'] or 30 of the validation form
DefautFormulaire == 30

\* min_value=1 of the validation form
MinFormulaire == 1

PROG_ID == "prog_python_30j"

----------------------------------------------------------------------------
(* SQL NULL / Python None, and a present value *)

NULL == <<>>

Some(v) == <<v>>

Val(o) == o[1]

----------------------------------------------------------------------------
(* The programme the store holds: two weeks, one day each, three items.    *)
(* Orders, types and estimated times are those the migration assigns.      *)

ProgrammesInit ==
    { [id |-> PROG_ID, titre |-> "Apprentissage Python en 30 jours"] }

SemainesInit ==
    { [id |-> "sem_1", programme_id |-> PROG_ID, numero |-> 1, ordre |-> 1],
      [id |-> "sem_2", programme_id |-> PROG_ID, numero |-> 2, ordre |-> 2] }

JoursInit ==
    { [id |-> "jour_1_sem_1", semaine_id |-> "sem_1", nom |-> "jour_1", ordre |-> 1],
      [id |-> "jour_1_sem_2", semaine_id |-> "sem_2", nom |-> "jour_1", ordre |-> 1] }

ContenusInit ==
    { [id |-> "A", jour_id |-> "jour_1_sem_1", type |-> "theorie",
       titre |-> "Variables", temps_estime |-> Some(15), ordre |-> 1],
      [id |-> "B", jour_id |-> "jour_1_sem_1", type |-> "exercice",
       titre |-> "Calculatrice", temps_estime |-> Some(30), ordre |-> 2],
      [id |-> "C", jour_id |-> "jour_1_sem_2", type |-> "theorie",
       titre |-> "Fonctions", temps_estime |-> Some(15), ordre |-> 1] }

\* prerequisite edges: B requires A; C requires A (recommended) and B;
\* A requires B (a forward reference, and a cycle together with B -> A)
AreteBA == [contenu_id |-> "B", prerequis_contenu_id |-> "A", obligatoire |-> 1]

AreteCA == [contenu_id |-> "C", prerequis_contenu_id |-> "A", obligatoire |-> 0]

AreteCB == [contenu_id |-> "C", prerequis_contenu_id |-> "B", obligatoire |-> 1]

AreteAB == [contenu_id |-> "A", prerequis_contenu_id |-> "B", obligatoire |-> 1]

\* the prerequisite tables the store may hold
PrerequisPossibles ==
    { {}, {AreteBA}, {AreteCA}, {AreteAB},
      {AreteBA, AreteCA, AreteCB}, {AreteAB, AreteBA} }

\* A programme longer than the candidate window: two weeks, two days each,
\* three items a day, ordered as the migration orders them.

\* the day names "jour_N" of the programme data
JoursNumerotes == <<"jour_1", "jour_2", "jour_3", "jour_4", "jour_5">>

\* variant: every day is given the order of a revision day
ordre_jour_revision(jour_nom) == 98

\* the ordre _create_jour gives a day: 99 for the weekend,
\* int(jour_nom.split('_')[1]) for "jour_N", 98 otherwise
ordre_jour(jour_nom) ==
    IF jour_nom = "weekend" THEN 99
    ELSE IF \E n \in 1..Len(JoursNumerotes) : JoursNumerotes[n] = jour_nom
        THEN CHOOSE n \in 1..Len(JoursNumerotes) : JoursNumerotes[n] = jour_nom
    ELSE 98


JoursFenetre ==
    { [id |-> "jour_1_sem_1", semaine_id |-> "sem_1", nom |-> "jour_1",
       ordre |-> ordre_jour("jour_1")],
      [id |-> "jour_2_sem_1", semaine_id |-> "sem_1", nom |-> "jour_2",
       ordre |-> ordre_jour("jour_2")],
      [id |-> "jour_1_sem_2", semaine_id |-> "sem_2", nom |-> "jour_1",
       ordre |-> ordre_jour("jour_1")],
      [id |-> "weekend_sem_2", semaine_id |-> "sem_2", nom |-> "weekend",
       ordre |-> ordre_jour("weekend")] }

ContenusFenetre ==
    { [id |-> "A", jour_id |-> "jour_1_sem_1", type |-> "theorie",
       titre |-> "Contenu A", temps_estime |-> Some(15), ordre |-> 1],
      [id |-> "B", jour_id |-> "jour_1_sem_1", type |-> "exercice",
       titre |-> "Contenu B", temps_estime |-> Some(30), ordre |-> 2],
      [id |-> "C", jour_id |-> "jour_1_sem_1", type |-> "ressource",
       titre |-> "Contenu C", temps_estime |-> Some(10), ordre |-> 3],
      [id |-> "D", jour_id |-> "jour_2_sem_1", type |-> "theorie",
       titre |-> "Contenu D", temps_estime |-> Some(15), ordre |-> 1],
      [id |-> "E", jour_id |-> "jour_2_sem_1", type |-> "exercice",
       titre |-> "Contenu E", temps_estime |-> Some(30), ordre |-> 2],
      [id |-> "F", jour_id |-> "jour_2_sem_1", type |-> "ressource",
       titre |-> "Contenu F", temps_estime |-> Some(10), ordre |-> 3],
      [id |-> "G", jour_id |-> "jour_1_sem_2", type |-> "theorie",
       titre |-> "Contenu G", temps_estime |-> Some(15), ordre |-> 1],
      [id |-> "H", jour_id |-> "jour_1_sem_2", type |-> "exercice",
       titre |-> "Contenu H", temps_estime |-> Some(30), ordre |-> 2],
      [id |-> "I", jour_id |-> "jour_1_sem_2", type |-> "ressource",
       titre |-> "Contenu I", temps_estime |-> Some(10), ordre |-> 3],
      [id |-> "J", jour_id |-> "weekend_sem_2", type |-> "exercice",
       titre |-> "Contenu J", temps_estime |-> Some(30), ordre |-> 1],
      [id |-> "K", jour_id |-> "weekend_sem_2", type |-> "projet",
       titre |-> "Contenu K", temps_estime |-> Some(180), ordre |-> 2],
      [id |-> "L", jour_id |-> "weekend_sem_2", type |-> "ressource",
       titre |-> "Contenu L", temps_estime |-> Some(10), ordre |-> 3] }

\* the items B .. K require the first item A; the last item L requires
\* nothing
PrerequisFenetre ==
    { [contenu_id |-> id, prerequis_contenu_id |-> "A", obligatoire |-> 1] :
        id \in {"B", "C", "D", "E", "F", "G", "H", "I", "J", "K"} }

\* the structures the migration may create: the programme data of the
\* script, cut to the short and to the long programme
StructuresMigrees ==
    { [semaines |-> SemainesInit, jours |-> JoursInit, contenus |-> ContenusInit],
      [semaines |-> SemainesInit, jours |-> JoursFenetre,
       contenus |-> ContenusFenetre] }

\* the legacy progression file the migration may find: none, or the key
\* "semaine_1_jour_1" with the list of indices [0]
FichiersLegacy ==
    { NULL, Some([semaine |-> "semaine_1", jour |-> "jour_1", indices |-> {0}]) }

\* what the user may type at the override question: "oui", "non", " Oui"
ReponsesSaisies ==
    { <<"o", "u", "i">>, <<"n", "o", "n">>, <<" ", "O", "u", "i">> }

\* content ids a caller may pass; "Z" matches no content item
IdsSaisis == {"A", "B", "C", "Z"}

\* notes a caller may pass
NotesSaisies == {"", "a revoir"}

\* minutes a caller of the DAO may pass; 0 is the default of the parameter
TempsSaisis == {0, 1}

\* what the user may type at the time prompt:
\* "", "0min", "-1min", "0H1", "xmin"
DureesSaisies ==
    { <<>>,
      <<"0", "m", "i", "n">>,
      <<"-", "1", "m", "i", "n">>,
      <<"0", "H", "1">>,
      <<"x", "m", "i", "n">> }

----------------------------------------------------------------------------
(* Read side of the DAOs *)

\* ContenuDAO.get_contenu: the row, or None
get_contenu(contenu_id) ==
    IF \E c \in contenus : c.id = contenu_id
        THEN Some(CHOOSE c \in contenus : c.id = contenu_id)
        ELSE NULL

\* ProgressionDAO.get_progression: fetchone() of the rows of the item, or None
get_progression(contenu_id) ==
    IF \E p \in progression : p.contenu_id = contenu_id
        THEN Some(CHOOSE p \in progression : p.contenu_id = contenu_id)
        ELSE NULL

\* ContenuDAO.get_prerequis: prerequis JOIN contenus ON c.id =
\* p.prerequis_contenu_id WHERE p.contenu_id = ?  (row order is unspecified)
get_prerequis(contenu_id) ==
    { [contenu |-> pc2[2], obligatoire |-> pc2[1].obligatoire] :
        pc2 \in { x \in prerequis \X contenus :
                    /\ x[1].contenu_id = contenu_id
                    /\ x[2].id = x[1].prerequis_contenu_id } }

\* ContenuDAO.get_contenus_dependants: the reverse lookup
get_contenus_dependants(contenu_id) ==
    { [contenu |-> pc2[2], obligatoire |-> pc2[1].obligatoire] :
        pc2 \in { x \in prerequis \X contenus :
                    /\ x[1].prerequis_contenu_id = contenu_id
                    /\ x[2].id = x[1].contenu_id } }

\* the rows of a result set as a list, in some order
RECURSIVE Liste(_)
Liste(S) ==
    IF S = {} THEN <<>>
    ELSE LET x == CHOOSE y \in S : TRUE IN <<x>> \o Liste(S \ {x})

----------------------------------------------------------------------------
(* ProgrammeService.verifier_prerequis *)

\* variant: only the mandatory prerequisites are looked at
prerequis_non_valides_obligatoires(contenu_id) ==
    { prereq \in get_prerequis(contenu_id) :
        /\ prereq.obligatoire # 0
        /\ LET prog == get_progression(prereq.contenu.id)
           IN  prog = NULL \/ Val(prog).statut # "termine" }

\* the prerequisite rows of the item that are not validated
prerequis_non_valides(contenu_id) ==
    { prereq \in get_prerequis(contenu_id) :
        LET prog == get_progression(prereq.contenu.id)
        IN  prog = NULL \/ Val(prog).statut # "termine" }

\* variant: the line names the prerequisite without its label
LignePrerequis_sans_type(prereq) ==
    [titre |-> prereq.contenu.titre, type |-> "obligatoire"]

\* the line of one unvalidated prerequisite
LignePrerequis(prereq) ==
    [titre |-> prereq.contenu.titre,
     type  |-> IF prereq.obligatoire # 0 THEN "obligatoire" ELSE "recommande"]

LigneTexte(t) == [titre |-> t, type |-> "texte"]

verifier_prerequis(contenu_id) ==
    IF get_prerequis(contenu_id) = {}
        THEN [ok |-> TRUE, messages |-> <<>>]
    ELSE IF prerequis_non_valides(contenu_id) # {}
        THEN [ok |-> FALSE,
              messages |->
                  <<LigneTexte("PREREQUIS NON VALIDES:")>>
                  \o [ i \in 1..Cardinality(prerequis_non_valides(contenu_id)) |->
                         LignePrerequis(Liste(prerequis_non_valides(contenu_id))[i]) ]
                  \o <<LigneTexte(""),
                       LigneTexte("Il est recommande de valider ces concepts d'abord.")>>]
    ELSE [ok |-> TRUE, messages |-> <<LigneTexte("Tous les prerequis sont valides")>>]

----------------------------------------------------------------------------
(* ProgrammeService.suggerer_prochain_contenu *)

\* variant: the WHERE clause without the test on p.statut
candidats_requete_sans_statut(prog_id) ==
    { c \in contenus :
        \E j \in jours : \E s \in semaines :
            /\ c.jour_id = j.id
            /\ j.semaine_id = s.id
            /\ s.programme_id = prog_id }

\* variant: the WHERE clause without the test on s.programme_id
candidats_requete_tout_programme(prog_id) ==
    { c \in contenus :
        /\ \E j \in jours : \E s \in semaines :
              /\ c.jour_id = j.id
              /\ j.semaine_id = s.id
        /\ \/ ~ \E p \in progression : p.contenu_id = c.id
           \/ \E p \in progression :
                 p.contenu_id = c.id /\ p.statut = "non_commence" }

\* contenus JOIN jours JOIN semaines LEFT JOIN progression
\* WHERE s.programme_id = ? AND (p.statut IS NULL OR p.statut = 'non_commence')
candidats_requete(prog_id) ==
    { c \in contenus :
        /\ \E j \in jours : \E s \in semaines :
              /\ c.jour_id = j.id
              /\ j.semaine_id = s.id
              /\ s.programme_id = prog_id
        /\ \/ ~ \E p \in progression : p.contenu_id = c.id
           \/ \E p \in progression :
                 p.contenu_id = c.id /\ p.statut = "non_commence" }

\* the sort key of ORDER BY s.ordre, j.ordre, c.ordre
cle_ordre(c) ==
    LET j == CHOOSE x \in jours : x.id = c.jour_id
        s == CHOOSE x \in semaines : x.id = j.semaine_id
    IN  <<s.ordre, j.ordre, c.ordre>>

\* k1 sorts before k2, or they tie
ordre_inferieur_ou_egal(k1, k2) ==
    \/ k1[1] < k2[1]
    \/ k1[1] = k2[1] /\ k1[2] < k2[2]
    \/ k1[1] = k2[1] /\ k1[2] = k2[2] /\ k1[3] =< k2[3]

\* every list the ORDER BY may produce: a row with a least key comes
\* first, rows that tie come in any order
RECURSIVE tris(_)
tris(S) ==
    IF S = {} THEN { <<>> }
    ELSE UNION { { <<m>> \o t : t \in tris(S \ {m}) } :
                 m \in { x \in S :
                            \A y \in S :
                                ordre_inferieur_ou_egal(cle_ordre(x),
                                                        cle_ordre(y)) } }

\* variant: the query without LIMIT
limiter_sans_limite(liste, n) == liste

\* LIMIT n
limiter(liste, n) ==
    IF Len(liste) =< n THEN liste ELSE SubSeq(liste, 1, n)

\* the candidate windows the query may return
fenetres(prog_id) ==
    { limiter(t, LIMIT) : t \in tris(candidats_requete(prog_id)) }

\* the test of the scan: prerequis_ok or no prerequisite
candidat_accepte(c) ==
    verifier_prerequis(c.id).ok \/ get_prerequis(c.id) = {}

\* variant: the first candidate of the window, whatever its prerequisites
choisir_sans_test(candidats) ==
    IF Len(candidats) > 0 THEN Some(candidats[1].id) ELSE NULL

\* variant: no fallback when no candidate is accepted
choisir_sans_repli(candidats) ==
    IF \E i \in 1..Len(candidats) : candidat_accepte(candidats[i])
        THEN LET i == CHOOSE k \in 1..Len(candidats) :
                        /\ candidat_accepte(candidats[k])
                        /\ \A m \in 1..(k-1) : ~ candidat_accepte(candidats[m])
             IN  Some(candidats[i].id)
    ELSE NULL

\* the scan of one window: first accepted candidate, else the first, else None
choisir(candidats) ==
    IF \E i \in 1..Len(candidats) : candidat_accepte(candidats[i])
        THEN LET i == CHOOSE k \in 1..Len(candidats) :
                        /\ candidat_accepte(candidats[k])
                        /\ \A m \in 1..(k-1) : ~ candidat_accepte(candidats[m])
             IN  Some(candidats[i].id)
    ELSE IF Len(candidats) > 0 THEN Some(candidats[1].id)
    ELSE NULL

\* the values the call may return: Some(id of the returned row) or None
suggerer_prochain_contenu(prog_id) ==
    { choisir(candidats) : candidats \in fenetres(prog_id) }

----------------------------------------------------------------------------
(* ProgressionDAO.get_progression_programme *)

\* the programme ids the statistics are asked for: the one the store holds
\* and one it does not hold
ProgrammesDemandes == {PROG_ID, "prog_inconnu"}

\* FROM contenus c JOIN jours j JOIN semaines s LEFT JOIN progression p
\* WHERE s.programme_id = ?: one row per (item, record of the item), and one
\* row with p NULL for an item without record
lignes_programme(prog_id) ==
    LET cs == { c \in contenus :
                  \E j \in jours, sm \in semaines :
                      /\ c.jour_id = j.id
                      /\ j.semaine_id = sm.id
                      /\ sm.programme_id = prog_id }
    IN  { [c |-> x[1], p |-> Some(x[2])] :
            x \in { y \in cs \X progression : y[2].contenu_id = y[1].id } }
        \cup
        { [c |-> c, p |-> NULL] :
            c \in { d \in cs : \A q \in progression : q.contenu_id # d.id } }

\* SUM over rows given as [c, v] records, v being the value of the row
RECURSIVE somme(_)
somme(S) ==
    IF S = {} THEN 0
    ELSE LET x == CHOOSE y \in S : TRUE IN x.v + somme(S \ {x})

\* the count with the CASE dropped: every item that has a record
compte_statut_tout_suivi(L, statut) ==
    Cardinality({ l.c.id : l \in { x \in L : x.p # NULL } })

\* COUNT(DISTINCT CASE WHEN p.statut = ? THEN c.id END)
compte_statut(L, statut) ==
    Cardinality({ l.c.id :
        l \in { x \in L : x.p # NULL /\ Val(x.p).statut = statut } })

\* the sum with the CASE on the in-progress records
temps_passe_en_cours(L) ==
    IF L = {} THEN NULL
    ELSE Some(somme({ [c |-> l.c.id,
                       v |-> IF l.p # NULL /\ Val(l.p).statut = "en_cours"
                                 THEN Val(l.p).temps_passe ELSE 0] :
                      l \in L }))

\* SUM(CASE WHEN p.statut = 'termine' THEN p.temps_passe ELSE 0 END): NULL
\* when the query has no row
temps_passe_termines(L) ==
    IF L = {} THEN NULL
    ELSE Some(somme({ [c |-> l.c.id,
                       v |-> IF l.p # NULL /\ Val(l.p).statut = "termine"
                                 THEN Val(l.p).temps_passe ELSE 0] :
                      l \in L }))

\* SUM(c.temps_estime): NULL values are skipped, NULL when nothing is left
temps_estimes(L) ==
    LET E == { l \in L : l.c.temps_estime # NULL }
    IN  IF E = {} THEN NULL
        ELSE Some(somme({ [c |-> l.c.id, v |-> Val(l.c.temps_estime)] :
                          l \in E }))

get_progression_programme(prog_id) ==
    LET L == lignes_programme(prog_id)
    IN  [ total_contenus    |-> Cardinality({ l.c.id : l \in L }),
          contenus_termines |-> compte_statut(L, "termine"),
          contenus_en_cours |-> compte_statut(L, "en_cours"),
          temps_total_estime |-> temps_estimes(L),
          temps_total_passe |-> temps_passe_termines(L) ]

----------------------------------------------------------------------------
(* The per-week rows of generer_rapport and of the dashboard *)

\* the rows of the join that belong to the week
lignes_semaine(prog_id, sem) ==
    { l \in lignes_programme(prog_id) :
        \E j \in jours : j.id = l.c.jour_id /\ j.semaine_id = sem.id }

\* the count with the CASE dropped: every row that has a record
compte_lignes_suivies(L, statut) ==
    Cardinality({ x \in L : x.p # NULL })

\* COUNT(CASE WHEN p.statut = ? THEN 1 END): the rows, not the items
compte_lignes_statut(L, statut) ==
    Cardinality({ x \in L : x.p # NULL /\ Val(x.p).statut = statut })

\* SELECT s.numero, COUNT(c.id), COUNT(CASE ...) FROM semaines s JOIN jours
\* JOIN contenus LEFT JOIN progression WHERE s.programme_id = ? GROUP BY
\* s.id: one row per week of the programme that has an item
progression_par_semaine(prog_id) ==
    { [semaine_id |-> sem.id,
       numero     |-> sem.numero,
       ordre      |-> sem.ordre,
       total      |-> Cardinality(lignes_semaine(prog_id, sem)),
       termines   |-> compte_lignes_statut(lignes_semaine(prog_id, sem),
                                           "termine")] :
        sem \in { s \in semaines :
                    /\ s.programme_id = prog_id
                    /\ lignes_semaine(prog_id, s) # {} } }

----------------------------------------------------------------------------
(* database_schema.parse_duration, on strings given as lists of characters *)

Chiffres == {"0", "1", "2", "3", "4", "5", "6", "7", "8", "9"}

ValeurChiffre(ch) ==
    CASE ch = "0" -> 0 [] ch = "1" -> 1 [] ch = "2" -> 2 [] ch = "3" -> 3
      [] ch = "4" -> 4 [] ch = "5" -> 5 [] ch = "6" -> 6 [] ch = "7" -> 7
      [] ch = "8" -> 8 [] ch = "9" -> 9

\* str.lower() on the letters the inputs use
lower(s) ==
    [i \in 1..Len(s) |->
        CASE s[i] = "H" -> "h" [] s[i] = "M" -> "m" [] s[i] = "I" -> "i"
          [] s[i] = "N" -> "n" [] s[i] = "O" -> "o" [] s[i] = "U" -> "u"
          [] OTHER -> s[i]]

\* str.strip()
RECURSIVE strip(_)
strip(s) ==
    IF s = <<>> THEN s
    ELSE IF Head(s) = " " THEN strip(Tail(s))
    ELSE IF s[Len(s)] = " " THEN strip(SubSeq(s, 1, Len(s) - 1))
    ELSE s

\* 'h' in s
contient_h(s) == \E i \in 1..Len(s) : s[i] = "h"

\* 'min' in s
contient_min(s) ==
    \E i \in 1..(Len(s) - 2) : s[i] = "m" /\ s[i+1] = "i" /\ s[i+2] = "n"

\* s.split('h')
RECURSIVE split_h(_)
split_h(s) ==
    IF ~ contient_h(s) THEN <<s>>
    ELSE LET i == CHOOSE k \in 1..Len(s) :
                     s[k] = "h" /\ \A m \in 1..(k-1) : s[m] # "h"
         IN  <<SubSeq(s, 1, i - 1)>> \o split_h(SubSeq(s, i + 1, Len(s)))

\* s.replace('min', '')
RECURSIVE replace_min(_)
replace_min(s) ==
    IF s = <<>> THEN s
    ELSE IF Len(s) >= 3 /\ s[1] = "m" /\ s[2] = "i" /\ s[3] = "n"
        THEN replace_min(SubSeq(s, 4, Len(s)))
    ELSE <<Head(s)>> \o replace_min(Tail(s))

\* the value of a list of digits
RECURSIVE valeur_chiffres(_)
valeur_chiffres(s) ==
    IF s = <<>> THEN 0
    ELSE 10 * valeur_chiffres(SubSeq(s, 1, Len(s) - 1)) + ValeurChiffre(s[Len(s)])

\* int(s): surrounding blanks and one sign are accepted, then digits only;
\* anything else raises ValueError
int(s) ==
    LET t == strip(s)
        signe == t # <<>> /\ Head(t) \in {"-", "+"}
        d == IF signe THEN Tail(t) ELSE t
    IN  IF d # <<>> /\ \A i \in 1..Len(d) : d[i] \in Chiffres
            THEN [erreur |-> FALSE,
                  valeur |-> IF signe /\ Head(t) = "-"
                                 THEN 0 - valeur_chiffres(d)
                                 ELSE valeur_chiffres(d)]
            ELSE [erreur |-> TRUE, valeur |-> 0]

parse_duration(duration_str) ==
    LET s == strip(lower(duration_str))
    IN  IF contient_h(s)
            THEN LET parts == split_h(s)
                     hours == int(parts[1])
                     mins_part == strip(replace_min(parts[2]))
                 IN  IF hours.erreur THEN hours
                     ELSE IF Len(parts) > 1 /\ parts[2] # <<>> /\ mins_part # <<>>
                         THEN IF int(mins_part).erreur THEN int(mins_part)
                              ELSE [erreur |-> FALSE,
                                    valeur |-> hours.valeur * 60 + int(mins_part).valeur]
                     ELSE [erreur |-> FALSE, valeur |-> hours.valeur * 60]
        ELSE IF contient_min(s)
            THEN int(strip(replace_min(s)))
        ELSE [erreur |-> FALSE, valeur |-> 0]

\* x or d, for a nullable integer
ou(x, d) == IF x = NULL THEN d ELSE IF Val(x) = 0 THEN d ELSE Val(x)

----------------------------------------------------------------------------
(* Write side of ProgressionDAO.  Each operator gives the table after the  *)
(* statement and whether the statement raised.                             *)

\* variant: PRAGMA foreign_keys left off, no insert is refused
cle_etrangere_desactivee(contenu_id) == TRUE

\* FOREIGN KEY (contenu_id) REFERENCES contenus(id), with foreign_keys = ON
cle_etrangere_ok(contenu_id) == \E c \in contenus : c.id = contenu_id

\* variant: INSERT OR IGNORE, an existing row is kept as it is
marquer_commence_ignore(contenu_id, now) ==
    IF ~ cle_etrangere_ok(contenu_id)
        THEN [erreur |-> TRUE, table |-> progression]
    ELSE IF get_progression(contenu_id) # NULL
        THEN [erreur |-> FALSE, table |-> progression]
    ELSE [erreur |-> FALSE,
          table  |-> progression
                     \cup { [contenu_id      |-> contenu_id,
                             statut          |-> "en_cours",
                             date_debut      |-> Some(now),
                             date_completion |-> NULL,
                             notes           |-> NULL,
                             temps_passe     |-> 0] }]

\* variant: an existing row is updated in place (statut, date_debut), its
\* other columns are kept
marquer_commence_mise_a_jour(contenu_id, now) ==
    IF ~ cle_etrangere_ok(contenu_id)
        THEN [erreur |-> TRUE, table |-> progression]
    ELSE IF get_progression(contenu_id) # NULL
        THEN [erreur |-> FALSE,
              table  |-> { IF p.contenu_id = contenu_id
                               THEN [p EXCEPT !.statut = "en_cours",
                                              !.date_debut = Some(now)]
                               ELSE p : p \in progression }]
    ELSE [erreur |-> FALSE,
          table  |-> progression
                     \cup { [contenu_id      |-> contenu_id,
                             statut          |-> "en_cours",
                             date_debut      |-> Some(now),
                             date_completion |-> NULL,
                             notes           |-> NULL,
                             temps_passe     |-> 0] }]

\* INSERT OR REPLACE INTO progression (contenu_id, statut, date_debut)
\* VALUES (?, 'en_cours', now): the row that conflicts on UNIQUE(contenu_id)
\* is deleted, the columns not listed take their defaults
marquer_commence(contenu_id, now) ==
    IF cle_etrangere_ok(contenu_id)
        THEN [erreur |-> FALSE,
              table  |-> { p \in progression : p.contenu_id # contenu_id }
                         \cup { [contenu_id      |-> contenu_id,
                                 statut          |-> "en_cours",
                                 date_debut      |-> Some(now),
                                 date_completion |-> NULL,
                                 notes           |-> NULL,
                                 temps_passe     |-> 0] }]
        ELSE [erreur |-> TRUE, table |-> progression]

\* variant: the UPDATE also sets date_debut
marquer_termine_ecrase_debut(contenu_id, temps_passe, notes, now, now2) ==
    IF get_progression(contenu_id) # NULL
        THEN [erreur |-> FALSE,
              table  |-> { IF p.contenu_id = contenu_id
                               THEN [p EXCEPT !.statut = "termine",
                                              !.date_debut = Some(now),
                                              !.date_completion = Some(now),
                                              !.temps_passe = temps_passe,
                                              !.notes = Some(notes)]
                               ELSE p : p \in progression }]
    ELSE IF cle_etrangere_ok(contenu_id)
        THEN [erreur |-> FALSE,
              table  |-> progression
                         \cup { [contenu_id      |-> contenu_id,
                                 statut          |-> "termine",
                                 date_debut      |-> Some(now),
                                 date_completion |-> Some(now2),
                                 notes           |-> Some(notes),
                                 temps_passe     |-> temps_passe] }]
    ELSE [erreur |-> TRUE, table |-> progression]

\* variant: the UPDATE writes the status 'en_cours'
marquer_termine_en_cours(contenu_id, temps_passe, notes, now, now2) ==
    IF get_progression(contenu_id) # NULL
        THEN [erreur |-> FALSE,
              table  |-> { IF p.contenu_id = contenu_id
                               THEN [p EXCEPT !.statut = "en_cours",
                                              !.date_completion = Some(now),
                                              !.temps_passe = temps_passe,
                                              !.notes = Some(notes)]
                               ELSE p : p \in progression }]
    ELSE IF cle_etrangere_ok(contenu_id)
        THEN [erreur |-> FALSE,
              table  |-> progression
                         \cup { [contenu_id      |-> contenu_id,
                                 statut          |-> "termine",
                                 date_debut      |-> Some(now),
                                 date_completion |-> Some(now2),
                                 notes           |-> Some(notes),
                                 temps_passe     |-> temps_passe] }]
    ELSE [erreur |-> TRUE, table |-> progression]

\* variant: always the INSERT, on a table without UNIQUE(contenu_id)
marquer_termine_insere_toujours(contenu_id, temps_passe, notes, now, now2) ==
    IF cle_etrangere_ok(contenu_id)
        THEN [erreur |-> FALSE,
              table  |-> progression
                         \cup { [contenu_id      |-> contenu_id,
                                 statut          |-> "termine",
                                 date_debut      |-> Some(now),
                                 date_completion |-> Some(now2),
                                 notes           |-> Some(notes),
                                 temps_passe     |-> temps_passe] }]
    ELSE [erreur |-> TRUE, table |-> progression]

\* variant: nothing is written while a prerequisite of the item is not done
marquer_termine_prerequis_exiges(contenu_id, temps_passe, notes, now, now2) ==
    IF ~ verifier_prerequis(contenu_id).ok
        THEN [erreur |-> FALSE, table |-> progression]
    ELSE
        IF get_progression(contenu_id) # NULL
            THEN [erreur |-> FALSE,
                  table  |-> { IF p.contenu_id = contenu_id
                                   THEN [p EXCEPT !.statut = "termine",
                                                  !.date_completion = Some(now),
                                                  !.temps_passe = temps_passe,
                                                  !.notes = Some(notes)]
                                   ELSE p : p \in progression }]
        ELSE IF cle_etrangere_ok(contenu_id)
            THEN [erreur |-> FALSE,
                  table  |-> progression
                             \cup { [contenu_id      |-> contenu_id,
                                     statut          |-> "termine",
                                     date_debut      |-> Some(now),
                                     date_completion |-> Some(now2),
                                     notes           |-> Some(notes),
                                     temps_passe     |-> temps_passe] }]
        ELSE [erreur |-> TRUE, table |-> progression]

\* UPDATE ... WHERE contenu_id = ? when get_progression finds a row,
\* INSERT otherwise; the INSERT reads the clock twice (now, then now2)
marquer_termine(contenu_id, temps_passe, notes, now, now2) ==
    IF get_progression(contenu_id) # NULL
        THEN [erreur |-> FALSE,
              table  |-> { IF p.contenu_id = contenu_id
                               THEN [p EXCEPT !.statut = "termine",
                                              !.date_completion = Some(now),
                                              !.temps_passe = temps_passe,
                                              !.notes = Some(notes)]
                               ELSE p : p \in progression }]
    ELSE IF cle_etrangere_ok(contenu_id)
        THEN [erreur |-> FALSE,
              table  |-> progression
                         \cup { [contenu_id      |-> contenu_id,
                                 statut          |-> "termine",
                                 date_debut      |-> Some(now),
                                 date_completion |-> Some(now2),
                                 notes           |-> Some(notes),
                                 temps_passe     |-> temps_passe] }]
    ELSE [erreur |-> TRUE, table |-> progression]

\* the clock readings of one marquer_termine: one for the UPDATE, two
\* successive ones (equal or not) for the INSERT
lectures_horloge(contenu_id) ==
    IF get_progression(contenu_id) # NULL
        THEN { <<clock, clock>> }
        ELSE { <<clock, clock>>, <<clock, clock + 1>> }

\* the record of a call
\* the status of the item's record, None without a record
statut_de(contenu_id) ==
    IF get_progression(contenu_id) = NULL THEN NULL
    ELSE Some(Val(get_progression(contenu_id)).statut)

\* the record of a call: arguments, clock readings, the status the item had
\* when the call was made, and how the call ended
Appel(op, contenu_id, temps_passe, notes, now, now2, resultat) ==
    [op |-> op, contenu_id |-> contenu_id, temps_passe |-> temps_passe,
     notes |-> notes, now |-> now, now2 |-> now2,
     statut_avant |-> statut_de(contenu_id), resultat |-> resultat]

----------------------------------------------------------------------------
(* Operations *)

\* ProgressionDAO.marquer_commence(contenu_id)
MarquerCommence(contenu_id) ==
    LET r == marquer_commence(contenu_id, clock)
    IN  /\ progression' = r.table
        /\ clock' = clock + 1
        /\ last' = Appel("marquer_commence", contenu_id, 0, "", clock, clock,
                         IF r.erreur THEN "IntegrityError" ELSE "ok")
        /\ UNCHANGED tables

\* ProgressionDAO.marquer_termine(contenu_id, temps_passe, notes)
MarquerTermine(contenu_id, temps_passe, notes) ==
    \E t \in lectures_horloge(contenu_id) :
        LET r == marquer_termine(contenu_id, temps_passe, notes, t[1], t[2])
        IN  /\ progression' = r.table
            /\ clock' = t[2] + 1
            /\ last' = Appel("marquer_termine", contenu_id, temps_passe, notes,
                             t[1], t[2],
                             IF r.erreur THEN "IntegrityError" ELSE "ok")
            /\ UNCHANGED tables

\* a call that returns without writing
SansEffet(op, contenu_id, resultat) ==
    /\ last' = Appel(op, contenu_id, 0, "", clock, clock, resultat)
    /\ clock' = clock + 1
    /\ UNCHANGED <<progression, tables>>

\* the minutes valider_contenu_interactif passes on for what was typed
temps_interactif(contenu, temps_str) ==
    LET temps_estime == ou(contenu.temps_estime, 0)
    IN  IF strip(temps_str) # <<>>
            THEN IF parse_duration(strip(temps_str)).erreur
                     THEN temps_estime
                     ELSE parse_duration(strip(temps_str)).valeur
            ELSE temps_estime

\* marquer_termine called from valider_contenu_interactif: the record of
\* the call also holds the value of continuer (the answer to the override
\* question, stripped and lowered), None when the question was not asked
MarquerTermineInteractif(contenu_id, temps_passe, notes, reponse) ==
    \E t \in lectures_horloge(contenu_id) :
        LET r == marquer_termine(contenu_id, temps_passe, notes, t[1], t[2])
        IN  /\ progression' = r.table
            /\ clock' = t[2] + 1
            /\ last' = Appel("marquer_termine", contenu_id, temps_passe, notes,
                             t[1], t[2],
                             IF r.erreur THEN "IntegrityError" ELSE "ok")
                        @@ [reponse |-> reponse]
            /\ UNCHANGED tables

\* variant: the answer to the override question is not looked at
reponse_acceptee_toujours(continuer) == TRUE

\* continuer = input(...).strip().lower(); continuer != 'oui' cancels
reponse_acceptee(continuer) == lower(strip(continuer)) = <<"o", "u", "i">>

\* ProgressionService.valider_contenu_interactif(contenu_id), the user
\* answering continuer to the override question and typing temps_str, notes
ValiderContenuInteractif(contenu_id, continuer, temps_str, notes) ==
    IF get_contenu(contenu_id) = NULL
        THEN SansEffet("valider_contenu_interactif", contenu_id, "introuvable")
    ELSE IF ~ verifier_prerequis(contenu_id).ok /\ ~ reponse_acceptee(continuer)
        THEN SansEffet("valider_contenu_interactif", contenu_id, "annule")
    ELSE MarquerTermineInteractif(
             contenu_id,
             temps_interactif(Val(get_contenu(contenu_id)), temps_str),
             notes,
             IF verifier_prerequis(contenu_id).ok THEN NULL
             ELSE Some(lower(strip(continuer))))

\* the rows the validation page offers: not yet done
resultats_validation ==
    { c \in contenus :
        \/ ~ \E p \in progression : p.contenu_id = c.id
        \/ \E p \in progression : p.contenu_id = c.id /\ p.statut # "termine" }

\* the values the number input of the form may hold for an item
temps_formulaire(contenu) ==
    { MinFormulaire, ou(contenu.temps_estime, DefautFormulaire) }

\* app.py validation_form, submitted
ValidationForm(contenu, temps_passe, notes) ==
    /\ contenu \in resultats_validation
    /\ temps_passe >= MinFormulaire
    /\ MarquerTermine(contenu.id, temps_passe, notes)

----------------------------------------------------------------------------
(* The store the migration builds *)

\* SELECT c.id FROM contenus c JOIN jours j ON c.jour_id = j.id
\* WHERE j.nom LIKE '%jour%' (the days of the store are named jour_N or
\* weekend, so the pattern matches a name exactly when the two are equal)
contenus_du_jour(jour) ==
    { c \in contenus : \E j \in jours : c.jour_id = j.id /\ j.nom = jour }

\* every list ORDER BY c.ordre may produce
tris_par_ordre(S) ==
    { f \in [1..Cardinality(S) -> S] :
        /\ \A i, k \in 1..Cardinality(S) : i # k => f[i] # f[k]
        /\ \A i, k \in 1..Cardinality(S) : i < k => f[i].ordre =< f[k].ordre }

\* ProgrammeMigrator._migrate_progression at time now, on a store without
\* progression: the tables it may leave (one row per listed index in range)
migrate_progression(fichier, now) ==
    IF fichier = NULL THEN { {} }
    ELSE { { [contenu_id      |-> liste[index + 1].id,
              statut          |-> "termine",
              date_debut      |-> NULL,
              date_completion |-> Some(now),
              notes           |-> NULL,
              temps_passe     |-> 0] :
                index \in { i \in Val(fichier).indices : i < Len(liste) } } :
           liste \in tris_par_ordre(contenus_du_jour(Val(fichier).jour)) }

----------------------------------------------------------------------------
(* The store as one value, and the session that works on it *)

\* the six tables
magasin ==
    [programmes |-> programmes, semaines |-> semaines, jours |-> jours,
     contenus |-> contenus, prerequis |-> prerequis,
     progression |-> progression]

\* the store right after create_tables
MagasinVide ==
    [programmes |-> {}, semaines |-> {}, jours |-> {}, contenus |-> {},
     prerequis |-> {}, progression |-> {}]

\* A session is [etat, ouvertes, abandonnees]: what runs, the number of
\* connections it opened that are still open, and how many of these no
\* object of the program refers to any more.

\* no process runs and no connection is open
SessionArret == [etat |-> "arret", ouvertes |-> 0, abandonnees |-> 0]

\* the command-line menu runs on its connection
SessionCli == [etat |-> "cli", ouvertes |-> 1, abandonnees |-> 0]

\* the states in which the operations of the application can be called
SessionsActives == {"cli", "app"}

----------------------------------------------------------------------------
(* The application on the store the migration built at time 0 *)

Init ==
    /\ programmes = ProgrammesInit
    /\ avant = MagasinVide
    /\ session = SessionCli
    /\ semaines = SemainesInit
    /\ jours = JoursInit
    /\ contenus = ContenusInit
    /\ prerequis \in PrerequisPossibles
    /\ \E fichier \in FichiersLegacy :
          progression \in migrate_progression(fichier, 0)
    /\ clock = 1
    /\ last = [op |-> "aucun", contenu_id |-> "", temps_passe |-> 0,
               notes |-> "", now |-> 0, now2 |-> 0, statut_avant |-> NULL,
               resultat |-> "ok"]
    /\ pc = "libre"
    /\ prochain = NULL
    /\ visites = <<>>

DoMarquerCommence ==
    /\ clock < MaxClock
    /\ \E c \in IdsSaisis : MarquerCommence(c)
    /\ UNCHANGED hors_operation

DoMarquerTermine ==
    /\ clock < MaxClock
    /\ \E c \in IdsSaisis, t \in TempsSaisis, n \in NotesSaisies :
          MarquerTermine(c, t, n)
    /\ UNCHANGED hors_operation

\* the override question is asked when the item exists and its
\* prerequisites are not satisfied
question_posee(contenu_id) ==
    get_contenu(contenu_id) # NULL /\ ~ verifier_prerequis(contenu_id).ok

\* the time and the notes are asked for unless the validation has ended
saisie_demandee(contenu_id, continuer) ==
    /\ get_contenu(contenu_id) # NULL
    /\ question_posee(contenu_id) => reponse_acceptee(continuer)

DoValiderContenuInteractif ==
    /\ clock < MaxClock
    /\ \E c \in IdsSaisis :
       \E rep \in IF question_posee(c) THEN ReponsesSaisies ELSE { <<>> } :
       \E d \in IF saisie_demandee(c, rep) THEN DureesSaisies ELSE { <<>> } :
       \E n \in IF saisie_demandee(c, rep) THEN NotesSaisies ELSE { "" } :
          ValiderContenuInteractif(c, rep, d, n)
    /\ UNCHANGED hors_operation

DoValidationForm ==
    /\ clock < MaxClock
    /\ \E c \in contenus, n \in NotesSaisies :
          \E t \in temps_formulaire(c) : ValidationForm(c, t, n)
    /\ UNCHANGED hors_operation

Next ==
    \/ DoMarquerCommence
    \/ DoMarquerTermine
    \/ DoValiderContenuInteractif
    \/ DoValidationForm

Spec == Init /\ [][Next]_vars

----------------------------------------------------------------------------
(* The loop "ask for a suggestion, validate it", on a fresh store *)

\* the pairs (item, prerequisite) reachable through n more joins
RECURSIVE chemins(_, _)
chemins(R, n) ==
    IF n = 0 THEN R
    ELSE chemins(R \cup { <<z[1][1], z[2][2]>> :
                            z \in { w \in R \X R : w[1][2] = w[2][1] } },
                 n - 1)

\* no item requires itself through a chain of edges
acyclique(aretes) ==
    LET R == { <<e.contenu_id, e.prerequis_contenu_id>> : e \in aretes }
    IN  \A w \in chemins(R, Cardinality(R)) : w[1] # w[2]

InitBoucle ==
    /\ programmes = ProgrammesInit
    /\ avant = MagasinVide
    /\ session = SessionCli
    /\ semaines = SemainesInit
    /\ jours = JoursInit
    /\ contenus = ContenusInit
    /\ prerequis \in { g \in PrerequisPossibles : acyclique(g) }
    /\ progression = {}
    /\ clock = 1
    /\ last = [op |-> "aucun", contenu_id |-> "", temps_passe |-> 0,
               notes |-> "", now |-> 0, now2 |-> 0, statut_avant |-> NULL,
               resultat |-> "ok"]
    /\ pc = "suggerer"
    /\ prochain = NULL
    /\ visites = <<>>

\* suggerer_prochain_contenu(PROG_ID) is called and its result kept
BoucleSuggerer ==
    /\ pc = "suggerer"
    /\ \E r \in suggerer_prochain_contenu(PROG_ID) :
          /\ prochain' = r
          /\ IF r = NULL
                THEN pc' = "fini" /\ visites' = visites
                ELSE pc' = "marquer" /\ visites' = Append(visites, Val(r))
    /\ UNCHANGED <<tables, progression, clock, last, avant, session>>

\* marquer_termine is called on the suggestion
BoucleMarquer ==
    /\ pc = "marquer"
    /\ \E t \in TempsSaisis, n \in NotesSaisies :
          MarquerTermine(Val(prochain), t, n)
    /\ pc' = "suggerer"
    /\ UNCHANGED <<prochain, visites, avant, session>>

NextBoucle ==
    \/ BoucleSuggerer
    \/ BoucleMarquer

SpecBoucle == InitBoucle /\ [][NextBoucle]_vars /\ WF_vars(NextBoucle)

----------------------------------------------------------------------------
(* The columns of the tables, as create_tables declares them *)

Colonnes(table) ==
    CASE table = "programmes" ->
           {"id", "titre", "sujet", "duree_jours", "niveau", "temps_quotidien",
            "description", "date_creation", "actif"}
      [] table = "semaines" ->
           {"id", "programme_id", "numero", "titre", "objectif",
            "temps_quotidien", "ordre"}
      [] table = "jours" ->
           {"id", "semaine_id", "nom", "type", "ordre"}
      [] table = "contenus" ->
           {"id", "jour_id", "type", "titre", "description", "enonce",
            "indice", "difficulte", "temps_estime", "ordre"}
      [] table = "prerequis" ->
           {"id", "contenu_id", "prerequis_contenu_id", "obligatoire"}
      [] table = "progression" ->
           {"id", "contenu_id", "statut", "date_debut", "date_completion",
            "notes", "temps_passe"}

\* a statement that names a column the table does not have raises
\* OperationalError
colonnes_connues(table, cols) == cols \subseteq Colonnes(table)

----------------------------------------------------------------------------
(* import_programme.exporter_progression and importer_progression.  A JSON  *)
(* document is [type_base, semaines]; an absent key is NULL; the contents   *)
(* of all weeks and days are one list of [id, progression].                 *)

\* the document returned when the export raised: keys erreur, details, type
ExportErreur == [type_base |-> NULL, semaines |-> NULL]

\* the value of a column of a row, when the row has the column
champ(ligne, colonne) ==
    IF colonne \in DOMAIN ligne THEN ligne[colonne] ELSE NULL

\* the entry of one item in the export
contenu_data(c) ==
    [id |-> c.id,
     progression |->
        IF get_progression(c.id) = NULL THEN NULL
        ELSE LET p == Val(get_progression(c.id))
             IN  Some([statut      |-> Some(p.statut),
                       date_debut  |-> p.date_debut,
                       date_fin    |-> champ(p, "date_fin"),
                       temps_passe |-> Some(p.temps_passe),
                       notes       |-> p.notes])]

\* exporter_progression_learning(conn, prog_id): the first statement that
\* names an unknown column ends the export with the error document
exporter_progression_learning(prog_id) ==
    LET cs == { l.c : l \in lignes_programme(prog_id) }
    IN  IF ~ colonnes_connues("programmes", {"nom", "description", "duree_jours"})
            THEN ExportErreur
        ELSE IF ~ \E pr \in programmes : pr.id = prog_id
            THEN ExportErreur
        ELSE IF /\ \E sm \in semaines : sm.programme_id = prog_id
                /\ ~ colonnes_connues("jours", {"id", "numero", "nom", "type", "ordre"})
            THEN ExportErreur
        ELSE IF /\ cs # {}
                /\ ~ colonnes_connues("progression",
                        {"statut", "date_debut", "date_fin", "temps_passe", "notes"})
            THEN ExportErreur
        ELSE [type_base |-> Some("learning"),
              semaines  |-> Some([ i \in 1..Cardinality(cs) |->
                                     contenu_data(Liste(cs)[i]) ])]

\* exporter_progression(db, prog_id) with db the DatabaseSchema object: the
\* store has a table programmes, so the learning export is used
exporter_progression(prog_id) == exporter_progression_learning(prog_id)

\* dict.get(key, default)
get(x, d) == IF x = NULL THEN d ELSE Val(x)

\* one tuple of the batch against the table: the table after it and whether
\* it was counted as imported or as an error (the tuples of the batches
\* carry temps_passe whenever they carry a statut)
importer_contenu(table, t) ==
    IF t.progression = NULL \/ Val(t.progression).statut = NULL
        THEN [table |-> table, importe |-> 0, erreur |-> 0]
    ELSE LET prog == Val(t.progression)
             cols == {"statut", "date_debut", "date_fin", "temps_passe", "notes"}
         IN  IF \E p \in table : p.contenu_id = t.id
                 THEN IF ~ colonnes_connues("progression", cols \cup {"contenu_id"})
                          THEN [table |-> table, importe |-> 0, erreur |-> 1]
                      ELSE [table |->
                               { IF p.contenu_id = t.id
                                     THEN [p EXCEPT !.statut = Val(prog.statut),
                                                    !.date_debut = prog.date_debut,
                                                    !.temps_passe = Val(prog.temps_passe),
                                                    !.notes = prog.notes]
                                     ELSE p : p \in table },
                            importe |-> 1, erreur |-> 0]
             ELSE IF \/ ~ colonnes_connues("progression", cols \cup {"contenu_id"})
                     \/ ~ cle_etrangere_ok(t.id)
                 THEN [table |-> table, importe |-> 0, erreur |-> 1]
             ELSE [table |-> table \cup
                       { [contenu_id      |-> t.id,
                          statut          |-> Val(prog.statut),
                          date_debut      |-> prog.date_debut,
                          date_completion |-> NULL,
                          notes           |-> prog.notes,
                          temps_passe     |-> Val(prog.temps_passe)] },
                   importe |-> 1, erreur |-> 0]

\* the loop over the tuples of the batch, from tuple i on
RECURSIVE importer_lot(_, _, _, _, _)
importer_lot(table, lot, i, nb_importes, nb_erreurs) ==
    IF i > Len(lot)
        THEN [succes |-> TRUE, nb_importes |-> nb_importes,
              nb_erreurs |-> nb_erreurs, table |-> table]
    ELSE LET r == importer_contenu(table, lot[i])
         IN  importer_lot(r.table, lot, i + 1,
                          nb_importes + r.importe, nb_erreurs + r.erreur)

\* importer_progression(db, json_data) on a progression table
importer_progression(table, data) ==
    IF get(data.type_base, "learning") = "learning" /\ data.semaines # NULL
        THEN importer_lot(table, Val(data.semaines), 1, 0, 0)
    ELSE [succes |-> TRUE, nb_importes |-> 0, nb_erreurs |-> 0,
          table |-> table]

----------------------------------------------------------------------------
(* ProgrammeMigrator._create_prerequis *)

\* the titles of the store, in lower case, letter by letter (LIKE does not
\* distinguish case)
lettres(titre) ==
    CASE titre = "Variables" -> <<"v", "a", "r", "i", "a", "b", "l", "e", "s">>
      [] titre = "Calculatrice" ->
           <<"c", "a", "l", "c", "u", "l", "a", "t", "r", "i", "c", "e">>
      [] titre = "Fonctions" -> <<"f", "o", "n", "c", "t", "i", "o", "n", "s">>
      [] OTHER -> <<>>

\* titre LIKE '%motif%'
like(texte, motif) ==
    \E i \in 1..(Len(texte) - Len(motif) + 1) :
        SubSeq(texte, i, i + Len(motif) - 1) = motif

\* _find_contenu_by_titre_partial: SELECT id FROM contenus WHERE titre LIKE ?
\* ORDER BY ordre LIMIT 1; the values it may return (rows with the same
\* ordre come in any order)
find_contenu_by_titre_partial(titre_partial) ==
    LET M == { c \in contenus : like(lettres(c.titre), titre_partial) }
    IN  IF M = {} THEN { NULL }
        ELSE { Some(c.id) : c \in { m \in M : \A x \in M : m.ordre =< x.ordre } }

\* the list of (title, titles of its prerequisites) of the migration, with
\* the titles of the store: a prerequisite that is not found, then two edges,
\* then a title that resolves to the item itself, one that resolves to a
\* prerequisite already inserted and one more edge
ListePrerequis ==
    << [titre |-> <<"c", "a", "l", "c">>,
        prerequis |-> << <<"i", "n", "s", "t", "a", "l", "l">> >>],
       [titre |-> <<"c", "a", "l", "c">>,
        prerequis |-> << <<"v", "a", "r", "i", "a", "b", "l", "e", "s">> >>],
       [titre |-> <<"f", "o", "n", "c", "t", "i", "o", "n", "s">>,
        prerequis |-> << <<"v", "a", "r", "i", "a", "b", "l", "e", "s">> >>],
       [titre |-> <<"f", "o", "n", "c">>,
        prerequis |-> << <<"c", "t", "i", "o", "n">>, <<"v", "a", "r">>,
                         <<"c", "a", "l", "c", "u", "l">> >>] >>

\* a list with a title that two items of the same ordre match
ListePrerequisAmbigue ==
    << [titre |-> <<"c", "a", "l", "c">>, prerequis |-> << <<"s">> >>] >>

ListesPrerequis == { ListePrerequis, ListePrerequisAmbigue }

\* variant: the insert without the test contenu_id != prereq_id
inserer_prerequis_sans_test(etat, contenu_id, prereq_id) ==
    IF prereq_id = NULL THEN etat
    ELSE IF \E e \in etat.table : /\ e.contenu_id = contenu_id
                                  /\ e.prerequis_contenu_id = Val(prereq_id)
        THEN [etat EXCEPT !.doublons = @ + 1]
    ELSE [etat EXCEPT !.table = @ \cup { [contenu_id |-> contenu_id,
                                          prerequis_contenu_id |-> Val(prereq_id),
                                          obligatoire |-> 1] },
                      !.count = @ + 1]

\* if prereq_id and contenu_id != prereq_id: INSERT INTO prerequis; the
\* IntegrityError of UNIQUE(contenu_id, prerequis_contenu_id) is swallowed
inserer_prerequis(etat, contenu_id, prereq_id) ==
    IF prereq_id = NULL \/ Val(prereq_id) = contenu_id THEN etat
    ELSE IF \E e \in etat.table : /\ e.contenu_id = contenu_id
                                  /\ e.prerequis_contenu_id = Val(prereq_id)
        THEN [etat EXCEPT !.doublons = @ + 1]
    ELSE [etat EXCEPT !.table = @ \cup { [contenu_id |-> contenu_id,
                                          prerequis_contenu_id |-> Val(prereq_id),
                                          obligatoire |-> 1] },
                      !.count = @ + 1]

\* for prereq_titre in prerequis_titres, from title j on
RECURSIVE boucle_prerequis(_, _, _, _)
boucle_prerequis(etats, contenu_id, titres, j) ==
    IF j > Len(titres) THEN etats
    ELSE boucle_prerequis(
             { inserer_prerequis(e, contenu_id, q) :
                 e \in etats, q \in find_contenu_by_titre_partial(titres[j]) },
             contenu_id, titres, j + 1)

\* for contenu_titre, prerequis_titres in prerequis, from entry i on
RECURSIVE boucle_contenus(_, _, _)
boucle_contenus(etats, liste, i) ==
    IF i > Len(liste) THEN etats
    ELSE boucle_contenus(
             UNION { IF cid = NULL THEN etats
                     ELSE boucle_prerequis(etats, Val(cid), liste[i].prerequis, 1) :
                       cid \in find_contenu_by_titre_partial(liste[i].titre) },
             liste, i + 1)

\* the outcomes of _create_prerequis: the table, the number of edges
\* created and the number of inserts that were refused
create_prerequis(liste) ==
    boucle_contenus({ [table |-> prerequis, count |-> 0, doublons |-> 0] },
                    liste, 1)

----------------------------------------------------------------------------
(* import_programme.ProgrammeImporter.importer_depuis_csv.  A CSV row is    *)
(* [type, semaine, jour, titre, temps_estime]; row i of the file has        *)
(* row_num i + 1.                                                           *)

TypesContenu == {"theorie", "exercice", "projet", "ressource"}

\* the template of generer_template_csv with a day and a content of a week
\* that no row created, followed by a valid content
CsvOrphelins ==
    << [type |-> "semaine", semaine |-> 1, jour |-> 0, titre |-> "Fondations",
        temps_estime |-> NULL],
       [type |-> "jour", semaine |-> 1, jour |-> 1, titre |-> "",
        temps_estime |-> NULL],
       [type |-> "theorie", semaine |-> 1, jour |-> 1, titre |-> "Introduction",
        temps_estime |-> Some(15)],
       [type |-> "jour", semaine |-> 2, jour |-> 1, titre |-> "",
        temps_estime |-> NULL],
       [type |-> "theorie", semaine |-> 2, jour |-> 1, titre |-> "Types",
        temps_estime |-> Some(20)],
       [type |-> "exercice", semaine |-> 1, jour |-> 1, titre |-> "Exercice",
        temps_estime |-> Some(20)] >>

\* a file without any orphan row
CsvValide == SubSeq(CsvOrphelins, 1, 3)

FichiersCsv == { CsvOrphelins, CsvValide }

\* the subjects typed in the import form
SujetsSaisis == {"python_30j", "sql"}

\* the statement of one row against the accumulated import; erreurs holds
\* the row numbers reported
ligne_csv(acc, row, row_num) ==
    IF row.type = "" \/ row.semaine = 0 THEN acc
    ELSE IF row.type = "semaine" THEN
        LET semaine_id == "sem_" \o acc.prog_id \o "_" \o ToString(row.semaine)
        IN  IF \/ ~ colonnes_connues("semaines",
                      {"id", "programme_id", "numero", "titre", "objectif",
                       "temps_quotidien", "ordre"})
               \/ \E sm \in acc.semaines : sm.id = semaine_id
                THEN [acc EXCEPT !.erreurs = Append(@, row_num)]
            ELSE [acc EXCEPT
                    !.semaines = @ \cup { [id |-> semaine_id,
                                           programme_id |-> acc.prog_id,
                                           numero |-> row.semaine,
                                           ordre |-> row.semaine] },
                    !.semaines_cache = @ \cup { <<row.semaine, semaine_id>> },
                    !.nb_semaines = @ + 1]
    ELSE IF row.type = "jour" THEN
        IF ~ \E x \in acc.semaines_cache : x[1] = row.semaine
            THEN [acc EXCEPT !.erreurs = Append(@, row_num)]
        ELSE LET semaine_id == (CHOOSE x \in acc.semaines_cache :
                                    x[1] = row.semaine)[2]
                 jour_id == "jour_" \o semaine_id \o "_" \o ToString(row.jour)
             IN  IF \/ ~ colonnes_connues("jours",
                           {"id", "semaine_id", "numero", "nom", "type", "ordre"})
                    \/ \E j \in acc.jours : j.id = jour_id
                     THEN [acc EXCEPT !.erreurs = Append(@, row_num)]
                 ELSE [acc EXCEPT
                         !.jours = @ \cup { [id |-> jour_id,
                                             semaine_id |-> semaine_id,
                                             nom |-> IF row.jour < 99
                                                       THEN "jour_" \o ToString(row.jour)
                                                       ELSE "weekend",
                                             ordre |-> row.jour] },
                         !.jours_cache = @ \cup { <<row.semaine, row.jour, jour_id>> },
                         !.nb_jours = @ + 1]
    ELSE IF row.type \in TypesContenu THEN
        IF ~ \E x \in acc.jours_cache : x[1] = row.semaine /\ x[2] = row.jour
            THEN [acc EXCEPT !.erreurs = Append(@, row_num)]
        ELSE LET jour_id == (CHOOSE x \in acc.jours_cache :
                                 x[1] = row.semaine /\ x[2] = row.jour)[3]
                 contenu_id == "cont_" \o jour_id \o "_" \o ToString(acc.nb_contenus)
             IN  IF \/ ~ colonnes_connues("contenus",
                           {"id", "jour_id", "titre", "type", "description",
                            "enonce", "indice", "difficulte", "temps_estime",
                            "ordre"})
                    \/ \E c \in acc.contenus : c.id = contenu_id
                     THEN [acc EXCEPT !.erreurs = Append(@, row_num)]
                 ELSE [acc EXCEPT
                         !.contenus = @ \cup { [id |-> contenu_id,
                                                jour_id |-> jour_id,
                                                type |-> row.type,
                                                titre |-> row.titre,
                                                temps_estime |-> row.temps_estime,
                                                ordre |-> acc.nb_contenus] },
                         !.nb_contenus = @ + 1]
    ELSE acc

\* for row_num, row in enumerate(reader, start=2), from row i on
RECURSIVE lignes_csv(_, _, _)
lignes_csv(acc, csv, i) ==
    IF i > Len(csv) THEN acc
    ELSE lignes_csv(ligne_csv(acc, csv[i], i + 1), csv, i + 1)

\* importer_depuis_csv(csv_file, nom_programme, sujet): what it returns and
\* the tables it leaves.  The INSERT INTO programmes names the columns id,
\* nom, description, sujet, duree_jours and gives no titre (NOT NULL); when
\* it raises, the outer handler rolls back and reports the failure.
importer_depuis_csv(csv, nom_programme, sujet) ==
    LET prog_id == "prog_" \o sujet
        echec == [succes |-> FALSE, erreurs |-> <<1>>,
                  nb_semaines |-> 0, nb_jours |-> 0, nb_contenus |-> 0,
                  programmes |-> programmes, semaines |-> semaines,
                  jours |-> jours, contenus |-> contenus]
    IN  IF \/ ~ colonnes_connues("programmes",
                  {"id", "nom", "description", "sujet", "duree_jours"})
           \/ ~ ({"titre", "sujet"} \subseteq
                  {"id", "nom", "description", "sujet", "duree_jours"})
           \/ \E pr \in programmes : pr.id = prog_id
            THEN echec
        ELSE LET acc == lignes_csv(
                            [prog_id |-> prog_id, semaines |-> semaines,
                             jours |-> jours, contenus |-> contenus,
                             semaines_cache |-> {}, jours_cache |-> {},
                             nb_semaines |-> 0, nb_jours |-> 0,
                             nb_contenus |-> 0, erreurs |-> <<>>],
                            csv, 1)
             IN  [succes |-> TRUE, erreurs |-> acc.erreurs,
                  nb_semaines |-> acc.nb_semaines, nb_jours |-> acc.nb_jours,
                  nb_contenus |-> acc.nb_contenus,
                  programmes |-> programmes \cup
                                   { [id |-> prog_id, nom |-> nom_programme] },
                  semaines |-> acc.semaines, jours |-> acc.jours,
                  contenus |-> acc.contenus]

----------------------------------------------------------------------------
(* The migration run by migration_script.main on a new database, step by   *)
(* step (each step ends with a commit), followed by the application with   *)
(* its imports.                                                            *)

\* the record of a call of the migration or of an import
AppelImport(op, resultat, rapport) ==
    [op |-> op, contenu_id |-> "", temps_passe |-> 0, notes |-> "",
     now |-> clock, now2 |-> clock, statut_avant |-> NULL,
     resultat |-> resultat, rapport |-> rapport]

\* the migration script runs on its connection
SessionMigration == [etat |-> "migration", ouvertes |-> 1, abandonnees |-> 0]

EtapesMigration ==
    {"creer_programme", "creer_structure", "creer_prerequis",
     "migrer_progression"}

\* a hand-written export: an update of A, an unknown item, an insert for B
\* and an item without progression
LotMixte ==
    [type_base |-> Some("learning"),
     semaines  |-> Some(<<
        [id |-> "A",
         progression |-> Some([statut |-> Some("en_cours"), date_debut |-> Some(5),
                               date_fin |-> NULL, temps_passe |-> Some(7),
                               notes |-> Some("n")])],
        [id |-> "Z",
         progression |-> Some([statut |-> Some("termine"), date_debut |-> Some(5),
                               date_fin |-> Some(6), temps_passe |-> Some(9),
                               notes |-> NULL])],
        [id |-> "B",
         progression |-> Some([statut |-> Some("termine"), date_debut |-> Some(5),
                               date_fin |-> Some(6), temps_passe |-> Some(9),
                               notes |-> Some("m")])],
        [id |-> "C", progression |-> NULL] >>)]

LotsImportes == { LotMixte }

InitImport ==
    /\ programmes = {}
    /\ semaines = {}
    /\ jours = {}
    /\ contenus = {}
    /\ prerequis = {}
    /\ progression = {}
    /\ clock = 0
    /\ last = [op |-> "aucun", contenu_id |-> "", temps_passe |-> 0,
               notes |-> "", now |-> 0, now2 |-> 0, statut_avant |-> NULL,
               resultat |-> "ok"]
    /\ pc = "creer_programme"
    /\ prochain = NULL
    /\ visites = <<>>
    /\ avant = MagasinVide
    /\ session = SessionMigration

\* _create_programme: INSERT INTO programmes, commit
CreateProgramme ==
    /\ pc = "creer_programme"
    /\ programmes' = programmes \cup ProgrammesInit
    /\ pc' = "creer_structure"
    /\ last' = AppelImport("create_programme", "ok", NULL)
    /\ UNCHANGED <<semaines, jours, contenus, prerequis, progression, clock,
                   prochain, visites, avant, session>>

\* _create_structure: the weeks, days and items, commit
CreateStructure ==
    /\ pc = "creer_structure"
    /\ \E st \in StructuresMigrees :
          /\ semaines' = semaines \cup st.semaines
          /\ jours' = jours \cup st.jours
          /\ contenus' = contenus \cup st.contenus
    /\ pc' = "creer_prerequis"
    /\ last' = AppelImport("create_structure", "ok", NULL)
    /\ UNCHANGED <<programmes, prerequis, progression, clock, prochain,
                   visites, avant, session>>

\* _create_prerequis, commit
CreatePrerequis ==
    /\ pc = "creer_prerequis"
    /\ \E liste \in ListesPrerequis :
          \E r \in create_prerequis(liste) :
              /\ prerequis' = r.table
              /\ last' = AppelImport("create_prerequis", "ok",
                                     [liste |-> liste, count |-> r.count,
                                      doublons |-> r.doublons])
    /\ pc' = "migrer_progression"
    /\ UNCHANGED <<programmes, semaines, jours, contenus, progression, clock,
                   prochain, visites, avant, session>>

\* _migrate_progression, commit
MigrateProgression ==
    /\ pc = "migrer_progression"
    /\ \E fichier \in FichiersLegacy :
          /\ progression' \in migrate_progression(fichier, clock)
          /\ last' = AppelImport("migrate_all", "ok", [fichier |-> fichier])
    /\ clock' = clock + 1
    /\ pc' = "migre"
    /\ UNCHANGED <<tables, prochain, visites, avant, session>>

\* migration_script.main after migrate_all: db.disconnect()
FinMigration ==
    /\ pc = "migre"
    /\ session.etat = "migration"
    /\ session' = SessionArret
    /\ pc' = "libre"
    /\ UNCHANGED <<tables, progression, clock, last, prochain, visites, avant>>

\* a statement of the current step raises: the rows of the step are not
\* committed and are lost with the connection, the earlier steps stay.  The
\* exception ends the migration script (its connection goes with the
\* process) or the run of the application script (nothing closes the
\* connection, nothing refers to it any more).
EchecMigration ==
    /\ pc \in EtapesMigration
    /\ clock' = clock + 1
    /\ last' = AppelImport("migrate_all", "erreur", [etape |-> pc])
    /\ pc' = "libre"
    /\ session' = IF session.etat = "migration" THEN SessionArret
                  ELSE [etat |-> "app_erreur", ouvertes |-> session.ouvertes,
                        abandonnees |-> session.ouvertes]
    /\ UNCHANGED <<tables, progression, prochain, visites, avant>>

\* programme_learning_v2.main with the database file present:
\* MenuPrincipal() connects
CliMain ==
    /\ pc = "libre"
    /\ session.etat = "arret"
    /\ magasin # MagasinVide
    /\ session' = SessionCli
    /\ UNCHANGED <<tables, progression, clock, last, boucle, avant>>

\* app.init_database with the database file present: DatabaseSchema.connect
AppInitDatabase ==
    /\ pc = "libre"
    /\ session.etat = "arret"
    /\ magasin # MagasinVide
    /\ session' = [etat |-> "app", ouvertes |-> 1, abandonnees |-> 0]
    /\ UNCHANGED <<tables, progression, clock, last, boucle, avant>>

ImportMarquerCommence ==
    pc = "libre" /\ session.etat \in SessionsActives /\ DoMarquerCommence

ImportMarquerTermine ==
    pc = "libre" /\ session.etat \in SessionsActives /\ DoMarquerTermine

\* the import page: importer_progression(db, data) with an uploaded file or
\* with what the export page produced
DoImporterProgression ==
    /\ pc = "libre"
    /\ session.etat = "app"
    /\ clock < MaxClock
    /\ \E data \in LotsImportes \cup { exporter_progression(PROG_ID) } :
          LET r == importer_progression(progression, data)
          IN  /\ progression' = r.table
              /\ last' = AppelImport("importer_progression", "ok",
                             [lot |-> data, succes |-> r.succes,
                              nb_importes |-> r.nb_importes,
                              nb_erreurs |-> r.nb_erreurs])
    /\ avant' = magasin
    /\ clock' = clock + 1
    /\ UNCHANGED <<tables, boucle, session>>

\* the import page: ProgrammeImporter(db).importer_depuis_csv
DoImporterDepuisCsv ==
    /\ pc = "libre"
    /\ session.etat = "app"
    /\ clock < MaxClock
    /\ \E csv \in FichiersCsv, sujet \in SujetsSaisis :
          LET r == importer_depuis_csv(csv, "Mon programme", sujet)
          IN  /\ programmes' = r.programmes
              /\ semaines' = r.semaines
              /\ jours' = r.jours
              /\ contenus' = r.contenus
              /\ last' = AppelImport("importer_depuis_csv",
                             IF r.succes THEN "ok" ELSE "erreur",
                             [csv |-> csv, prog_id |-> "prog_" \o sujet,
                              succes |-> r.succes,
                              erreurs |-> r.erreurs,
                              nb_semaines |-> r.nb_semaines,
                              nb_jours |-> r.nb_jours,
                              nb_contenus |-> r.nb_contenus])
    /\ avant' = magasin
    /\ clock' = clock + 1
    /\ UNCHANGED <<prerequis, progression, boucle, session>>

NextImport ==
    \/ CreateProgramme
    \/ CreateStructure
    \/ CreatePrerequis
    \/ MigrateProgression
    \/ FinMigration
    \/ EchecMigration
    \/ CliMain
    \/ AppInitDatabase
    \/ ImportMarquerCommence
    \/ ImportMarquerTermine
    \/ DoImporterProgression
    \/ DoImporterDepuisCsv

SpecImport == InitImport /\ [][NextImport]_vars

-----------------------------------------------------------------------------
(* Sessions and their connections *)

\* Before a process starts, the database file is absent or holds a migrated
\* programme.
InitSession ==
    /\ \/ /\ programmes = {}
          /\ semaines = {}
          /\ jours = {}
          /\ contenus = {}
          /\ prerequis = {}
          /\ progression = {}
          /\ clock = 0
       \/ /\ programmes = ProgrammesInit
          /\ semaines = SemainesInit
          /\ jours = JoursInit
          /\ contenus = ContenusInit
          /\ prerequis \in PrerequisPossibles
          /\ \E fichier \in FichiersLegacy :
                progression \in migrate_progression(fichier, 0)
          /\ clock = 1
    /\ last = [op |-> "aucun", contenu_id |-> "", temps_passe |-> 0,
               notes |-> "", now |-> 0, now2 |-> 0, statut_avant |-> NULL,
               resultat |-> "ok"]
    /\ pc = "libre"
    /\ prochain = NULL
    /\ visites = <<>>
    /\ avant = MagasinVide
    /\ session = SessionArret

\* programme_learning_v2.main without the database file: message, return
CliMainSansBase ==
    /\ pc = "libre"
    /\ session.etat = "arret"
    /\ magasin = MagasinVide
    /\ session' = [etat |-> "finie", ouvertes |-> 0, abandonnees |-> 0]
    /\ UNCHANGED <<tables, progression, clock, last, boucle, avant>>

\* menu.run() returns (choice "0"); finally: menu.cleanup() disconnects
CliQuitter ==
    /\ session.etat = "cli"
    /\ session' = [etat |-> "finie", ouvertes |-> session.ouvertes - 1,
                   abandonnees |-> 0]
    /\ UNCHANGED <<tables, progression, clock, last, pc, prochain, visites,
                   avant>>

\* menu.run() raises (KeyboardInterrupt or any Exception); the except
\* clause prints, finally: menu.cleanup() disconnects
CliInterruption ==
    /\ session.etat = "cli"
    /\ session' = [etat |-> "finie", ouvertes |-> session.ouvertes - 1,
                   abandonnees |-> 0]
    /\ last' = [last EXCEPT !.resultat = "interrompu"]
    /\ UNCHANGED <<tables, progression, clock, pc, prochain, visites, avant>>

\* app.init_database without the database file:
\* DatabaseInitializer.initialize_new_database connects and creates the
\* tables, ProgrammeMigrator(db).migrate_all() follows step by step
AppInitNouvelleBase ==
    /\ pc = "libre"
    /\ session.etat = "arret"
    /\ magasin = MagasinVide
    /\ session' = [etat |-> "app_migration", ouvertes |-> 1,
                   abandonnees |-> 0]
    /\ pc' = "creer_programme"
    /\ UNCHANGED <<tables, progression, clock, last, prochain, visites, avant>>

\* app.init_database after migrate_all: db = DatabaseSchema(db_path);
\* db.connect() opens a second connection while the migrator still holds
\* the first, which nothing closes; the return drops the migrator
AppConnect ==
    /\ pc = "migre"
    /\ session.etat = "app_migration"
    /\ session' = [etat |-> "app", ouvertes |-> session.ouvertes + 1,
                   abandonnees |-> session.abandonnees + 1]
    /\ pc' = "libre"
    /\ UNCHANGED <<tables, progression, clock, last, prochain, visites, avant>>

\* an interaction makes the application script run again: db =
\* init_database() connects anew, the objects of the previous run are
\* dropped without disconnect
AppRerun ==
    /\ pc = "libre"
    /\ session.etat \in {"app", "app_erreur"}
    /\ clock < MaxClock
    /\ clock' = clock + 1
    /\ session' = [etat |-> "app", ouvertes |-> session.ouvertes + 1,
                   abandonnees |-> session.ouvertes]
    /\ UNCHANGED <<tables, progression, last, pc, prochain, visites, avant>>

\* the application session ends (the page is closed): no code of the
\* program runs
AppFin ==
    /\ pc = "libre"
    /\ session.etat \in {"app", "app_erreur"}
    /\ session' = [etat |-> "finie", ouvertes |-> session.ouvertes,
                   abandonnees |-> session.ouvertes]
    /\ UNCHANGED <<tables, progression, clock, last, pc, prochain, visites,
                   avant>>

\* the interpreter finalises a connection object nothing refers to; when
\* it does so is not decided by the program
Ramasse ==
    /\ session.abandonnees > 0
    /\ session' = [session EXCEPT !.ouvertes = @ - 1, !.abandonnees = @ - 1]
    /\ UNCHANGED <<tables, progression, clock, last, pc, prochain, visites,
                   avant>>

NextSession ==
    \/ CliMain
    \/ CliMainSansBase
    \/ CliQuitter
    \/ CliInterruption
    \/ AppInitDatabase
    \/ AppInitNouvelleBase
    \/ CreateProgramme
    \/ CreateStructure
    \/ CreatePrerequis
    \/ MigrateProgression
    \/ EchecMigration
    \/ AppConnect
    \/ AppRerun
    \/ AppFin
    \/ Ramasse
    \/ ImportMarquerCommence
    \/ ImportMarquerTermine

SpecSession == InitSession /\ [][NextSession]_vars

----------------------------------------------------------------------------
(* The programme longer than the candidate window, no item started        *)

\* the migrated programme, no item started
InitFenetre ==
    /\ programmes = ProgrammesInit
    /\ semaines = SemainesInit
    /\ jours = JoursFenetre
    /\ contenus = ContenusFenetre
    /\ prerequis \in { PrerequisFenetre, {} }
    /\ progression = {}
    /\ clock = 1
    /\ last = [op |-> "aucun", contenu_id |-> "", temps_passe |-> 0,
               notes |-> "", now |-> 0, now2 |-> 0, statut_avant |-> NULL,
               resultat |-> "ok"]
    /\ pc = "libre"
    /\ prochain = NULL
    /\ visites = <<>>
    /\ avant = MagasinVide
    /\ session = SessionCli

\* the two writes of the progression, from the menu
NextFenetre ==
    \/ DoMarquerCommence
    \/ DoMarquerTermine

SpecFenetre == InitFenetre /\ [][NextFenetre]_vars

----------------------------------------------------------------------------
(* Vocabulary of the properties *)

\* the item has a record with status done
est_termine(contenu_id) ==
    \E p \in progression : p.contenu_id = contenu_id /\ p.statut = "termine"

\* every prerequisite edge of the item points to a done item
prerequis_tous_termines(contenu_id) ==
    \A e \in prerequis :
        e.contenu_id = contenu_id => est_termine(e.prerequis_contenu_id)

\* the items of the programme without a record, or with status not started
non_commences(prog_id) ==
    { c \in contenus :
        /\ \E j \in jours : \E s \in semaines :
              c.jour_id = j.id /\ j.semaine_id = s.id /\ s.programme_id = prog_id
        /\ \A p \in progression :
              p.contenu_id = c.id => p.statut = "non_commence" }

\* c1 comes strictly before c2 in week order, day order, content order
precede(c1, c2) ==
    LET j1 == CHOOSE j \in jours : j.id = c1.jour_id
        j2 == CHOOSE j \in jours : j.id = c2.jour_id
        s1 == CHOOSE x \in semaines : x.id = j1.semaine_id
        s2 == CHOOSE x \in semaines : x.id = j2.semaine_id
    IN  \/ s1.ordre < s2.ordre
        \/ s1.ordre = s2.ordre /\ j1.ordre < j2.ordre
        \/ s1.ordre = s2.ordre /\ j1.ordre = j2.ordre /\ c1.ordre < c2.ordre

\* r is the suggestion of the first item of the set S
est_premier(r, S) ==
    \E c \in S : r = Some(c.id) /\ \A d \in S \ {c} : precede(c, d)

\* the rows of the item in the progression table
lignes_de(contenu_id) == { p \in progression : p.contenu_id = contenu_id }

----------------------------------------------------------------------------
(* Properties *)

\* C1: for every content id, known or not, verifier_prerequis answers true
\* exactly when every prerequisite edge of the id, mandatory or recommended,
\* points to an item whose status is termine (so also when it has no edge).
C1_VerifierPrerequis ==
    \A c \in IdsSaisis :
        verifier_prerequis(c).ok <=> prerequis_tous_termines(c)

\* the recommended prerequisite of an item was just marked done and the
\* answer for the item is true
C1_Witness ==
    \E e \in prerequis :
        /\ e.obligatoire = 0
        /\ last.op = "marquer_termine"
        /\ last.contenu_id = e.prerequis_contenu_id
        /\ last.statut_avant # Some("termine")
        /\ verifier_prerequis(e.contenu_id).ok

\* C2: when some not-started item has all its prerequisites done (or has
\* none), suggerer_prochain_contenu returns the first such item in curriculum
\* order; with A (no prerequisite) before B (prerequisite A) it returns A on
\* the fresh store and, after marquer_termine(A), it returns B and
\* verifier_prerequis(B) is true.
C2_PremierSatisfait ==
    LET satisfaits == { c \in non_commences(PROG_ID) :
                          prerequis_tous_termines(c.id) }
    IN  /\ satisfaits # {} =>
              \A r \in suggerer_prochain_contenu(PROG_ID) :
                  est_premier(r, satisfaits)
        /\ prerequis = {AreteBA} =>
              /\ progression = {} =>
                    suggerer_prochain_contenu(PROG_ID) = {Some("A")}
              /\ ( /\ last.op = "marquer_termine"
                   /\ last.contenu_id = "A"
                   /\ last.statut_avant = NULL
                   /\ progression = lignes_de("A") ) =>
                    /\ suggerer_prochain_contenu(PROG_ID) = {Some("B")}
                    /\ verifier_prerequis("B").ok

\* A was just marked done on the fresh store and B is now suggested
C2_Witness ==
    /\ prerequis = {AreteBA}
    /\ last.op = "marquer_termine"
    /\ last.contenu_id = "A"
    /\ last.statut_avant = NULL
    /\ progression = lignes_de("A")
    /\ Some("B") \in suggerer_prochain_contenu(PROG_ID)

\* C3: the loop that asks for a suggestion and marks it done never receives
\* the same item twice and ends, with no suggestion left, after it has
\* received every item of the programme exactly once.
C3_BoucleVisiteTout ==
    /\ [](\A i, k \in 1..Len(visites) : i # k => visites[i] # visites[k])
    /\ <>( /\ pc = "fini"
           /\ Len(visites) = Cardinality(contenus)
           /\ \A c \in contenus : \E i \in 1..Len(visites) : visites[i] = c.id )

\* the loop has ended after three suggestions, on a store with prerequisites
C3_Witness ==
    /\ pc = "fini"
    /\ prochain = NULL
    /\ Len(visites) = 3
    /\ prerequis # {}

\* C4: suggerer_prochain_contenu returns no suggestion only when every item
\* of the programme is done.
C4_AucuneSuggestionSiTermine ==
    NULL \in suggerer_prochain_contenu(PROG_ID) =>
        \A c \in contenus : est_termine(c.id)

\* C5: while some item is not started, a suggestion is returned; when none
\* of the not-started items has its prerequisites done, the suggestion is
\* the first not-started item in curriculum order.
C5_Repli ==
    non_commences(PROG_ID) # {} =>
        /\ NULL \notin suggerer_prochain_contenu(PROG_ID)
        /\ (\A c \in non_commences(PROG_ID) : ~ prerequis_tous_termines(c.id)) =>
               \A r \in suggerer_prochain_contenu(PROG_ID) :
                   est_premier(r, non_commences(PROG_ID))

\* an item was started; two items are not started, none with its
\* prerequisites done, and the first of them is suggested
C5_Witness ==
    /\ last.op = "marquer_commence"
    /\ last.resultat = "ok"
    /\ Cardinality(non_commences(PROG_ID)) >= 2
    /\ \A c \in non_commences(PROG_ID) : ~ prerequis_tous_termines(c.id)
    /\ \E r \in suggerer_prochain_contenu(PROG_ID) :
          est_premier(r, non_commences(PROG_ID))

\* C6: marquer_termine on an item that has a record leaves the item with
\* that one record, its start time unchanged, status termine, completion
\* time the time of the call, minutes and notes those of the call.
C6_TermineGardeDebut ==
    [][ ( /\ last' # last
          /\ last'.op = "marquer_termine"
          /\ lignes_de(last'.contenu_id) # {} ) =>
            \A p \in lignes_de(last'.contenu_id) :
                { q \in progression' : q.contenu_id = last'.contenu_id } =
                    { [contenu_id      |-> p.contenu_id,
                       statut          |-> "termine",
                       date_debut      |-> p.date_debut,
                       date_completion |-> Some(last'.now),
                       notes           |-> Some(last'.notes),
                       temps_passe     |-> last'.temps_passe] } ]_vars

\* marquer_termine was applied to an item that an earlier marquer_termine
\* had created: the start time is the old one, the completion time the new
C6_Witness ==
    /\ last.op = "marquer_termine"
    /\ last.statut_avant = Some("termine")
    /\ \E p \in lignes_de(last.contenu_id) :
          /\ p.date_debut # NULL
          /\ p.date_debut # Some(last.now)
          /\ p.date_completion = Some(last.now)

\* C7 as stated: once an item is done it stays done, whatever is called.
C7_TermineDefinitif ==
    [][ \A c \in contenus :
          (\E p \in progression : p.contenu_id = c.id /\ p.statut = "termine")
          => (\E p \in progression' : p.contenu_id = c.id /\ p.statut = "termine")
      ]_vars

\* C7 amended: a done item stays done after marquer_termine on any item and
\* after marquer_commence on another item; marquer_commence on the done item
\* itself leaves it in progress.
C7_TermineSaufCommence ==
    [][ \A c \in contenus :
          ( /\ \E p \in progression : p.contenu_id = c.id /\ p.statut = "termine"
            /\ last' # last
            /\ last'.op \in {"marquer_termine", "marquer_commence"} ) =>
              IF last'.op = "marquer_commence" /\ last'.contenu_id = c.id
                  THEN \A p \in progression' :
                           p.contenu_id = c.id => p.statut = "en_cours"
                  ELSE \E p \in progression' :
                           p.contenu_id = c.id /\ p.statut = "termine"
      ]_vars

\* a done item was marked done again and is done
C7_Witness ==
    /\ last.op = "marquer_termine"
    /\ last.statut_avant = Some("termine")
    /\ est_termine(last.contenu_id)

\* C8: marquer_termine on an item without a record creates one record, done,
\* whose start time and completion time are both the time of the call.
C8_DebutEgalCompletion ==
    ( /\ last.op = "marquer_termine"
      /\ last.resultat = "ok"
      /\ last.statut_avant = NULL ) =>
        \E p \in progression :
            /\ lignes_de(last.contenu_id) = {p}
            /\ p.statut = "termine"
            /\ p.date_debut = Some(last.now)
            /\ p.date_completion = Some(last.now)

\* C9: after marquer_termine the minutes recorded are at least 1, and they
\* are the estimated time of the item when the minutes passed are zero or
\* negative.
C9_TempsParDefaut ==
    ( /\ last.op = "marquer_termine"
      /\ last.resultat = "ok" ) =>
        \A p \in lignes_de(last.contenu_id) :
            /\ p.temps_passe >= 1
            /\ last.temps_passe =< 0 =>
                  \E c \in contenus :
                      c.id = p.contenu_id /\ c.temps_estime = Some(p.temps_passe)

\* C10: marquer_commence on an existing item succeeds and leaves the item
\* with exactly one record, in progress, started at the time of the call.
C10_MarquerCommence ==
    ( /\ last.op = "marquer_commence"
      /\ \E c \in contenus : c.id = last.contenu_id ) =>
        /\ last.resultat = "ok"
        /\ \E p \in progression :
              /\ lignes_de(last.contenu_id) = {p}
              /\ p.statut = "en_cours"
              /\ p.date_debut = Some(last.now)

\* marquer_commence was called on an item that had a record and whose
\* prerequisites are not done
C10_Witness ==
    /\ last.op = "marquer_commence"
    /\ last.resultat = "ok"
    /\ last.statut_avant # NULL
    /\ ~ prerequis_tous_termines(last.contenu_id)

----------------------------------------------------------------------------
(* Statistics of a programme *)

\* the items under a programme
contenus_du_programme(prog_id) ==
    { c \in contenus :
        \E j \in jours : /\ j.id = c.jour_id
                         /\ \E sm \in semaines : /\ sm.id = j.semaine_id
                                                  /\ sm.programme_id = prog_id }

\* the records of the items of a programme that have the status
suivis(prog_id, statut) ==
    { p \in progression :
        /\ p.statut = statut
        /\ \E c \in contenus_du_programme(prog_id) : c.id = p.contenu_id }

\* C11: for every programme and in every reachable state,
\* get_progression_programme reports total_contenus equal to the number of
\* items under the programme, contenus_termines not greater than
\* total_contenus and contenus_termines + contenus_en_cours not greater than
\* total_contenus.
C11_TerminesBornes ==
    \A prog_id \in ProgrammesDemandes :
        LET r == get_progression_programme(prog_id)
        IN  /\ r.total_contenus = Cardinality(contenus_du_programme(prog_id))
            /\ r.contenus_termines <= r.total_contenus
            /\ r.contenus_termines + r.contenus_en_cours <= r.total_contenus

\* after a call, the programme has done items, items in progress and items
\* without record
C11_Witness ==
    LET r == get_progression_programme(PROG_ID)
    IN  /\ last.op # "aucun"
        /\ last.resultat = "ok"
        /\ r.contenus_termines >= 1
        /\ r.contenus_en_cours >= 1
        /\ r.contenus_termines + r.contenus_en_cours < r.total_contenus

----------------------------------------------------------------------------
(* Messages of verifier_prerequis *)

\* the prerequisite edges of an item whose target is not done
aretes_non_validees(contenu_id) ==
    { e \in prerequis :
        /\ e.contenu_id = contenu_id
        /\ \E c \in contenus : c.id = e.prerequis_contenu_id
        /\ ~ est_termine(e.prerequis_contenu_id) }

\* the line that names the target of an edge with the label of the edge
ligne_attendue(e) ==
    [titre |-> (CHOOSE c \in contenus : c.id = e.prerequis_contenu_id).titre,
     type  |-> IF e.obligatoire = 0 THEN "recommande" ELSE "obligatoire"]

\* C13 as stated: when verifier_prerequis(c) is false, the message list is
\* exactly the lines of the unmet prerequisites, one each (2 entries for two
\* unmet prerequisites).
C13_UneLigneParPrerequis ==
    \A c \in IdsSaisis :
        LET r == verifier_prerequis(c)
        IN  ~ r.ok =>
                /\ Len(r.messages) = Cardinality(aretes_non_validees(c))
                /\ \A e \in aretes_non_validees(c) :
                       \E i \in 1..Len(r.messages) :
                           r.messages[i] = ligne_attendue(e)

\* C13 amended: when verifier_prerequis(c) is false, the message list is a
\* heading, then exactly one line per unmet prerequisite naming it with its
\* mandatory/recommended label, then an empty line and a closing advice:
\* n + 3 entries for n unmet prerequisites.
C13_LignesEncadrees ==
    \A c \in IdsSaisis :
        LET r == verifier_prerequis(c)
            n == Cardinality(aretes_non_validees(c))
        IN  ~ r.ok =>
                /\ n >= 1
                /\ Len(r.messages) = n + 3
                /\ r.messages[1].type = "texte"
                /\ r.messages[n + 2] = [titre |-> "", type |-> "texte"]
                /\ r.messages[n + 3].type = "texte"
                /\ \A e \in aretes_non_validees(c) :
                       Cardinality({ i \in 2..(n + 1) :
                           r.messages[i] = ligne_attendue(e) }) = 1
                /\ \A i \in 2..(n + 1) :
                       \E e \in aretes_non_validees(c) :
                           r.messages[i] = ligne_attendue(e)

\* after a call, an item has an unmet mandatory and an unmet recommended
\* prerequisite and the answer for it is false
C13_Witness ==
    /\ last.op # "aucun"
    /\ \E c \in contenus :
          /\ ~ verifier_prerequis(c.id).ok
          /\ \E e1, e2 \in aretes_non_validees(c.id) :
                e1.obligatoire = 0 /\ e2.obligatoire # 0

----------------------------------------------------------------------------
(* Migration and imports *)

\* C14: after any sequence of migration steps, marquer_commence,
\* marquer_termine and progression imports, every content item has at most
\* one progression record, and an item without record is treated as not
\* started: it is a candidate of the suggestion and counts neither as done
\* nor as in progress.
C14_AuPlusUnSuivi ==
    /\ \A p1, p2 \in progression :
          p1.contenu_id = p2.contenu_id => p1 = p2
    /\ \A c \in contenus_du_programme(PROG_ID) :
          lignes_de(c.id) = {} =>
              /\ c \in candidats_requete(PROG_ID)
              /\ c \in non_commences(PROG_ID)
    /\ LET r == get_progression_programme(PROG_ID)
        IN  r.contenus_termines + r.contenus_en_cours
                = Cardinality({ p.contenu_id : p \in progression })

\* a batch with a tuple for an item that has a record was just imported,
\* one item has a record and another has none
C14_Witness ==
    /\ last.op = "importer_progression"
    /\ last.rapport.lot = LotMixte
    /\ \E p \in progression : p.contenu_id = "A"
    /\ \E c \in contenus : lignes_de(c.id) = {}

\* C15: in every reachable state, exporting the progression of the
\* programme, deleting every progression record and importing the export
\* gives back the progression table as it was.
C15_AllerRetour ==
    importer_progression({}, exporter_progression(PROG_ID)).table = progression

\* the tuples of a batch that carry a progression with a status
tuples_suivis(data) ==
    { i \in 1..Len(Val(data.semaines)) :
        /\ Val(data.semaines)[i].progression # NULL
        /\ Val(Val(data.semaines)[i].progression).statut # NULL }

\* C16: after importer_progression, each tuple of the batch whose content
\* id exists has left exactly one record of the item with the status, start
\* time, minutes and notes of the tuple; each tuple whose content id is
\* unknown has left no record and is counted as an error, and nothing else
\* is.
C16_ImportParId ==
    (last.op = "importer_progression" /\ last.rapport.lot.semaines # NULL) =>
        LET lot == Val(last.rapport.lot.semaines)
            T == tuples_suivis(last.rapport.lot)
        IN  /\ \A i \in T :
                  IF \E c \in contenus : c.id = lot[i].id
                      THEN \E p \in progression :
                             /\ lignes_de(lot[i].id) = {p}
                             /\ p.statut = Val(Val(lot[i].progression).statut)
                             /\ p.date_debut = Val(lot[i].progression).date_debut
                             /\ p.temps_passe = Val(Val(lot[i].progression).temps_passe)
                             /\ p.notes = Val(lot[i].progression).notes
                      ELSE lignes_de(lot[i].id) = {}
            /\ last.rapport.nb_erreurs =
                  Cardinality({ i \in T : ~ \E c \in contenus : c.id = lot[i].id })
            /\ last.rapport.nb_importes =
                  Cardinality({ i \in T : \E c \in contenus : c.id = lot[i].id })

\* C17: after an import that failed part-way (the migration or the CSV
\* import), the store is exactly as it was when the import began.
C17_ToutOuRien ==
    (last.op \in {"migrate_all", "importer_depuis_csv"} /\ last.resultat = "erreur")
        => magasin = avant

\* the rows of a CSV file that name a week, or a (week, day) pair, that no
\* earlier row of the file created
RECURSIVE orphelins(_, _)
orphelins(csv, i) ==
    IF i = 0 THEN {}
    ELSE orphelins(csv, i - 1) \cup
         (IF \/ /\ csv[i].type = "jour"
                /\ ~ \E k \in 1..(i - 1) : /\ csv[k].type = "semaine"
                                            /\ csv[k].semaine = csv[i].semaine
             \/ /\ csv[i].type \in TypesContenu
                /\ ~ \E k \in 1..(i - 1) : /\ csv[k].type = "jour"
                                            /\ csv[k].semaine = csv[i].semaine
                                            /\ csv[k].jour = csv[i].jour
                                            /\ k \notin orphelins(csv, i - 1)
             THEN {i} ELSE {})

\* C18: after importer_depuis_csv of a file for a new programme, the rows
\* that reference a week or a day not yet created have inserted nothing and
\* have one entry each in the error list, every other row is imported, and
\* the import reports success.
C18_OrphelinsSignales ==
    (/\ last.op = "importer_depuis_csv"
     /\ ~ \E pr \in avant.programmes : pr.id = last.rapport.prog_id)
        => LET csv == last.rapport.csv
               O == orphelins(csv, Len(csv))
           IN  /\ last.rapport.succes
               /\ Len(last.rapport.erreurs) = Cardinality(O)
               /\ last.rapport.nb_semaines + last.rapport.nb_jours
                      + last.rapport.nb_contenus = Len(csv) - Cardinality(O)
               /\ Cardinality(contenus) - Cardinality(avant.contenus)
                      = last.rapport.nb_contenus

\* the pairs (entry, prerequisite title) of a list
paires_listees(liste) ==
    { x \in (1..Len(liste)) \X (1..3) : x[2] <= Len(liste[x[1]].prerequis) }

\* the items a title of the list may stand for
items_de(titre_partial) ==
    { c.id : c \in { d \in contenus : like(lettres(d.titre), titre_partial) } }

\* C19: in every reachable state the prerequisite table holds at most one
\* edge per (dependent, prerequisite) pair and no edge from an item to
\* itself; after _create_prerequis, every edge created is a distinct pair
\* (a duplicate insert left the table as it was) and every listed pair whose
\* titles are found is in the table, also those listed after a duplicate.
C19_AretesUniques ==
    /\ \A e1, e2 \in prerequis :
          (/\ e1.contenu_id = e2.contenu_id
           /\ e1.prerequis_contenu_id = e2.prerequis_contenu_id) => e1 = e2
    /\ \A e \in prerequis : e.contenu_id # e.prerequis_contenu_id
    /\ last.op = "create_prerequis" =>
          LET liste == last.rapport.liste
          IN  /\ last.rapport.count = Cardinality(prerequis)
              /\ \A x \in paires_listees(liste) :
                    LET cs == items_de(liste[x[1]].titre)
                        qs == items_de(liste[x[1]].prerequis[x[2]])
                    IN  (cs # {} /\ qs # {}) =>
                            \E c \in cs, q \in qs :
                                \/ c = q
                                \/ \E e \in prerequis :
                                      /\ e.contenu_id = c
                                      /\ e.prerequis_contenu_id = q
              /\ \A e \in prerequis :
                    \E x \in paires_listees(liste) :
                        /\ e.contenu_id \in items_de(liste[x[1]].titre)
                        /\ e.prerequis_contenu_id
                              \in items_de(liste[x[1]].prerequis[x[2]])

\* _create_prerequis has just run on a list with a self reference and a
\* duplicate followed by a new pair: one insert refused, three edges
C19_Witness ==
    /\ last.op = "create_prerequis"
    /\ last.rapport.doublons = 1
    /\ last.rapport.count = 3
    /\ \E e \in prerequis : e.contenu_id = "C" /\ e.prerequis_contenu_id = "B"


\* C20: a session never has more than one connection open, and none is
\* open once the session has ended.
C20_UneConnexionParSession ==
    /\ session.ouvertes <= 1
    /\ (session.etat \in {"arret", "finie"} => session.ouvertes = 0)

\* C21: whatever programme is asked for, an item returned by
\* suggerer_prochain_contenu is an item of that programme, and it has no
\* progression record or a record with status non_commence: an item in
\* progress or done is never suggested.
C21_SuggestionNonCommencee ==
    \A prog_id \in ProgrammesDemandes :
        \A r \in suggerer_prochain_contenu(prog_id) :
            r # NULL =>
                /\ \E c \in contenus_du_programme(prog_id) : c.id = Val(r)
                /\ \A p \in progression :
                      p.contenu_id = Val(r) => p.statut = "non_commence"

\* one item is done, another in progress, and the third is suggested
C21_Witness ==
    /\ last.op \in {"marquer_commence", "marquer_termine"}
    /\ last.resultat = "ok"
    /\ \E p \in progression : p.statut = "termine"
    /\ \E p \in progression : p.statut = "en_cours"
    /\ \E r \in suggerer_prochain_contenu(PROG_ID) :
          /\ r # NULL
          /\ ~ \E p \in progression : p.contenu_id = Val(r)

\* the first LIMIT not-started items of the programme in curriculum order
premiers_non_commences(prog_id) ==
    { c \in non_commences(prog_id) :
        Cardinality({ d \in non_commences(prog_id) : precede(d, c) }) < LIMIT }

\* C22: the item suggerer_prochain_contenu returns is always among the
\* first 10 not-started items in curriculum order; when all 10 have
\* unsatisfied prerequisites it is the first of them, even if a later
\* not-started item has all its prerequisites satisfied.
C22_FenetreDeDix ==
    /\ \A r \in suggerer_prochain_contenu(PROG_ID) :
          r # NULL =>
              \E c \in premiers_non_commences(PROG_ID) : r = Some(c.id)
    /\ ( /\ premiers_non_commences(PROG_ID) # {}
         /\ \A c \in premiers_non_commences(PROG_ID) :
               ~ verifier_prerequis(c.id).ok )
        => \A r \in suggerer_prochain_contenu(PROG_ID) :
              est_premier(r, non_commences(PROG_ID))

\* A was started: eleven items are not started, the first ten of them
\* require A, the eleventh (L) has its prerequisites satisfied, and the
\* first (B) is suggested
C22_Witness ==
    /\ last.op = "marquer_commence"
    /\ last.resultat = "ok"
    /\ Cardinality(non_commences(PROG_ID)) = LIMIT + 1
    /\ \A c \in premiers_non_commences(PROG_ID) : ~ verifier_prerequis(c.id).ok
    /\ \E c \in non_commences(PROG_ID) \ premiers_non_commences(PROG_ID) :
          verifier_prerequis(c.id).ok
    /\ suggerer_prochain_contenu(PROG_ID) = { Some("B") }

\* C23: in every state the migration and the CSV import produce, week
\* numbers are unique within a programme, day orders are unique within a
\* week, no two items of a programme have the same (week order, day order,
\* content order), and so suggerer_prochain_contenu has one possible result.
C23_OrdreTotalStrict ==
    /\ \A s1, s2 \in semaines :
          (s1.programme_id = s2.programme_id /\ s1.numero = s2.numero)
              => s1 = s2
    /\ \A j1, j2 \in jours :
          (j1.semaine_id = j2.semaine_id /\ j1.ordre = j2.ordre) => j1 = j2
    /\ \A prog_id \in ProgrammesDemandes :
          /\ \A c1, c2 \in contenus_du_programme(prog_id) :
                cle_ordre(c1) = cle_ordre(c2) => c1 = c2
          /\ Cardinality(suggerer_prochain_contenu(prog_id)) = 1

\* after the migration a CSV import was attempted; the store holds a week
\* with two days and a day with two items
C23_Witness ==
    /\ last.op = "importer_depuis_csv"
    /\ \E j1, j2 \in jours : j1 # j2 /\ j1.semaine_id = j2.semaine_id
    /\ \E c1, c2 \in contenus : c1 # c2 /\ c1.jour_id = c2.jour_id
    /\ Cardinality(semaines) >= 2

\* the items a and b require each other
cycle(a, b) ==
    /\ \E e \in prerequis : e.contenu_id = a /\ e.prerequis_contenu_id = b
    /\ \E e \in prerequis : e.contenu_id = b /\ e.prerequis_contenu_id = a

\* C24 as stated: two items that require each other never have their
\* prerequisites satisfied.
C24_CyclePermanent ==
    \A a, b \in {c.id : c \in contenus} :
        cycle(a, b) => ~ verifier_prerequis(a).ok /\ ~ verifier_prerequis(b).ok

\* C24 amended: when a and b require each other, verifier_prerequis(a) is
\* false while b is not done; marquer_termine(b) marks b done whatever its
\* prerequisites, and from then on verifier_prerequis(a) is true as soon as
\* the other prerequisites of a are done.
C24_CycleLeveParTermine ==
    [][ \A a, b \in {c.id : c \in contenus} :
          cycle(a, b) =>
              /\ (~ est_termine(b))' => (~ verifier_prerequis(a).ok)'
              /\ ( /\ last' # last
                   /\ last'.op = "marquer_termine"
                   /\ last'.contenu_id = b
                   /\ last'.resultat = "ok" ) =>
                     /\ est_termine(b)'
                     /\ (\A e \in prerequis :
                            (e.contenu_id = a /\ e.prerequis_contenu_id # b)
                                => est_termine(e.prerequis_contenu_id)')
                        => verifier_prerequis(a).ok'
      ]_vars

\* A and B require each other, B was marked done while A was not done, and
\* the prerequisites of A are satisfied
C24_Witness ==
    /\ cycle("A", "B")
    /\ last.op = "marquer_termine"
    /\ last.contenu_id = "B"
    /\ last.resultat = "ok"
    /\ ~ est_termine("A")
    /\ verifier_prerequis("A").ok

\* C25: a call of valider_contenu_interactif with an unknown content id, or
\* with unsatisfied prerequisites and an answer other than 'oui' to the
\* override question, leaves the progression table unchanged; with the
\* answer 'oui' the item is marked done although its prerequisites are
\* unmet.
C25_ValidationInteractive ==
    [][ last' # last =>
          /\ last'.op = "valider_contenu_interactif" =>
                /\ progression' = progression
                /\ \/ get_contenu(last'.contenu_id) = NULL
                   \/ ~ verifier_prerequis(last'.contenu_id).ok
          /\ ("reponse" \in DOMAIN last' /\ last'.reponse # NULL) =>
                /\ last'.reponse = Some(<<"o", "u", "i">>)
                /\ ~ verifier_prerequis(last'.contenu_id).ok
                /\ last'.resultat = "ok"
                /\ \E p \in progression' :
                      p.contenu_id = last'.contenu_id /\ p.statut = "termine"
      ]_vars

\* the user answered 'oui' and the item is done while one of its
\* prerequisites is not
C25_Witness ==
    /\ "reponse" \in DOMAIN last
    /\ last.reponse = Some(<<"o", "u", "i">>)
    /\ est_termine(last.contenu_id)
    /\ ~ prerequis_tous_termines(last.contenu_id)

\* the items the migration of a legacy file may have marked done
contenus_migres ==
    { q.contenu_id :
        q \in UNION UNION { migrate_progression(fichier, 0) :
                               fichier \in FichiersLegacy } }

\* C26 as stated: after marquer_commence or marquer_termine, every record
\* has a completion time exactly when its status is done, and every record
\* has a start time.
C26_DatesCompletes ==
    (last.op \in {"marquer_commence", "marquer_termine"} /\ last.resultat = "ok")
    => \A p \in progression :
          /\ p.date_completion # NULL <=> p.statut = "termine"
          /\ p.date_debut # NULL

\* C26 amended: every record has a completion time exactly when its status
\* is done; a record has a start time unless it is a done record of an item
\* the migration of the legacy file marked, which marquer_termine updates
\* without giving it a start time.
C26_DatesSaufMigration ==
    \A p \in progression :
        /\ p.date_completion # NULL <=> p.statut = "termine"
        /\ p.date_debut = NULL =>
               (p.statut = "termine" /\ p.contenu_id \in contenus_migres)

\* a migrated record was updated by marquer_termine and has no start time,
\* another record is in progress
C26_Witness ==
    /\ last.op = "marquer_termine"
    /\ last.resultat = "ok"
    /\ last.statut_avant = Some("termine")
    /\ \E p \in progression :
          /\ p.contenu_id = last.contenu_id
          /\ p.date_debut = NULL
          /\ p.date_completion = Some(last.now)
    /\ \E p \in progression :
          p.statut = "en_cours" /\ p.date_debut # NULL

\* C27: every progression record and every prerequisite edge references a
\* content item that exists; marquer_commence or marquer_termine called
\* with an id that matches no content item creates no record and leaves
\* the progression table unchanged.
C27_IntegriteReferentielle ==
    [][ /\ \A p \in progression' : \E c \in contenus' : c.id = p.contenu_id
        /\ \A e \in prerequis' :
              /\ \E c \in contenus' : c.id = e.contenu_id
              /\ \E c \in contenus' : c.id = e.prerequis_contenu_id
        /\ ( /\ last' # last
             /\ last'.op \in {"marquer_commence", "marquer_termine"}
             /\ ~ \E c \in contenus : c.id = last'.contenu_id )
            => /\ progression' = progression
               /\ last'.resultat = "IntegrityError"
      ]_vars

\* marquer_termine was called with an id that matches no item, on a store
\* that holds records and edges
C27_Witness ==
    /\ last.op = "marquer_termine"
    /\ last.contenu_id = "Z"
    /\ last.resultat = "IntegrityError"
    /\ progression # {}
    /\ prerequis # {}

\* C28: for every programme, the item totals of the per-week rows add up to
\* total_contenus and their done counts add up to contenus_termines of
\* get_progression_programme.
C28_SemainesEtProgramme ==
    \A prog_id \in ProgrammesDemandes :
        LET R == progression_par_semaine(prog_id)
            stats == get_progression_programme(prog_id)
        IN  /\ somme({ [c |-> row.semaine_id, v |-> row.total] : row \in R })
                   = stats.total_contenus
            /\ somme({ [c |-> row.semaine_id, v |-> row.termines] : row \in R })
                   = stats.contenus_termines

\* an item was marked done; each of the two weeks has a done item and one
\* item is in progress
C28_Witness ==
    /\ last.op = "marquer_termine"
    /\ last.resultat = "ok"
    /\ Cardinality(progression_par_semaine(PROG_ID)) = 2
    /\ \A row \in progression_par_semaine(PROG_ID) : row.termines >= 1
    /\ get_progression_programme(PROG_ID).contenus_en_cours = 1

\* C29: after valider_contenu_interactif has marked an item done, every
\* item it reports as unlocked (get_contenus_dependants of the item) has
\* all its prerequisites satisfied.
C29_DebloquesSatisfaits ==
    ("reponse" \in DOMAIN last /\ last.resultat = "ok") =>
        \A d \in get_contenus_dependants(last.contenu_id) :
            verifier_prerequis(d.contenu.id).ok

\* the week names "semaine_N" of the programme data
SemainesNumerotees == <<"semaine_1", "semaine_2", "semaine_3", "semaine_4">>

\* the items at the listed positions, in content order, of the day of the
\* week a key of the legacy file names
contenus_designes(fichier) ==
    IF fichier = NULL THEN {}
    ELSE { c \in contenus :
             /\ \E j \in jours, s \in semaines :
                   /\ c.jour_id = j.id
                   /\ j.semaine_id = s.id
                   /\ j.nom = Val(fichier).jour
                   /\ SemainesNumerotees[s.numero] = Val(fichier).semaine
             /\ Cardinality({ d \in contenus :
                                d.jour_id = c.jour_id /\ d.ordre < c.ordre })
                   \in Val(fichier).indices }

\* C30: after the migration of the legacy progression file, exactly the
\* items at the listed positions of the day of the week each key names are
\* done, and no item of another week or day.
C30_ProgressionPreservee ==
    (pc = "migre" /\ last.op = "migrate_all" /\ last.resultat = "ok") =>
        { p.contenu_id : p \in { q \in progression : q.statut = "termine" } }
            = { c.id : c \in contenus_designes(last.rapport.fichier) }

====
